---- MODULE Spec2Model ----
(***************************************************************************)
(* State-machine model of the account pool of antigravity-claude-proxy:    *)
(* rate-limit and validity bookkeeping (account-manager/rate-limits.js)    *)
(* and the token / project caches (account-manager/credentials.js), the    *)
(* upstream request builder (cloudcode/request-builder.js), and, from the  *)
(* design description, account selection, the streaming translator, the    *)
(* signature cache and the executor's retry policy.                        *)
(*                                                                         *)
(* Time is the integer variable now (Date.now(), scaled to small units).   *)
(* JavaScript null is the integer Null; truthiness and numeric coercion of *)
(* number-or-null values are modelled by Truthy and Num.                   *)
(***************************************************************************)
EXTENDS Integers, Sequences, FiniteSets, TLC

\* ---------------------------------------------------------------- bounds
MaxNow == 2              \* the clock runs over 1..MaxNow
MaxResetMs == 2          \* largest reset duration a caller passes
MaxCalls == 3            \* state-changing pool calls made in one run
MaxStates == 2           \* OAuth states issued
MaxCallbacks == 3        \* OAuth callbacks received
MaxOAuthNow == 3         \* the clock of the OAuth flow
MaxToggles == 3          \* toggle requests the console issues
MaxLookups == 4
NumEndpoints == 2        \* entries of LOAD_CODE_ASSIST_ENDPOINTS
MaxSources == 4          \* EventSources one log viewer creates
MaxTimers == 3           \* reconnect timers pending at once
LogLimit == 2            \* Alpine.store('settings').logLimit          \* interleaved project lookups

\* ------------------------------------------------------- program constants
STATE_MAX_AGE_MS == 1      \* 10 * 60 * 1000, scaled
DEFAULT_COOLDOWN_MS == 2 \* constants.js, imported by rate-limits.js
TOKEN_REFRESH_INTERVAL_MS == 1 \* constants.js, imported by credentials.js
Infinity == 1000000      \* let minWait = Infinity

\* ------------------------------------------------------------- JS values
Null == 0 - 1
Truthy(x) == x # Null /\ x # 0
Num(x) == IF x = Null THEN 0 ELSE x

NoModel == ""            \* modelId = null
Models == {"m1", "m2"}
Emails == {"a@x", "b@x"}
UnknownEmail == "z@x"    \* an email no account of the pool carries
Sessions == {"s1", "s2"} \* session ids
NoAccount == ""          \* no account: an unbound session, an empty selection
NoSignature == ""        \* a thinking block without signature, a cache miss
ThinkingTexts == {"hm", "ok"}

\* Content fingerprint: the thinking text, its ordinal position and the
\* session id (the digest of the triple, as for the session id)
Fingerprint(text, position, sessionId) == <<text, position, sessionId>>
Fingerprints == {Fingerprint(text, 1, s) : text \in ThinkingTexts, s \in Sessions}

\* The streaming translator before the first upstream unit
NewStream ==
    [phase |-> "AwaitingStart", upstream |-> <<>>, blockState |-> "none",
     blockIndex |-> 0 - 1, nextIndex |-> 0, events |-> <<>>]

\* A modelRateLimits entry; present = FALSE is a key that is not in the
\* object (or an account without a modelRateLimits object at all, which
\* every reader treats the same way: acc.modelRateLimits || {}).
NoCall == <<>>

\* The WebUI server: the configured password (config.webuiPassword), the
\* in-memory config.modelMapping (Undefined until one is configured; a
\* mapping gives each model id its hidden flag, or "unset"), the
\* configuration file as last saved, the parity of the requests served and
\* the last request with its response status
ModelIds == {"m1", "m2"}
Flags == {"true", "false"}
Undefined == [defined |-> FALSE, of |-> [m \in ModelIds |-> "unset"]]
NewWeb ==
    [password |-> "pw",
     modelMapping |-> Undefined,
     saved |-> [debug |-> "false", modelMapping |-> Undefined],
     served |-> 0,
     last |-> [method |-> "", path |-> "", provided |-> "", status |-> 0]]

\* Project lookups: per email, the calls of getProjectForAccount suspended
\* at await discoverProject, and the discoveries issued since the email's
\* cache entry was last cleared; and the number of lookups started
NewDisc ==
    [waiting |-> [e \in Emails |-> 0], issued |-> [e \in Emails |-> 0], lookups |-> 0]

\* The console's view of one account: the enabled flag of the account
\* object in the data store, the generation of the store's accounts array
\* (fetchData replaces the array), the server's flag, the toggle requests in
\* flight, the number of fetches in flight, the numbers of toggles issued
\* and settled, and the last toggle settled
NewUi ==
    [shown |-> TRUE, gen |-> 0, server |-> TRUE, inflight |-> {}, fetching |-> 0,
     issued |-> 0, settled |-> 0,
     last |-> [failed |-> FALSE, prev |-> TRUE, enabled |-> TRUE]]

\* The OAuth states getAuthorizationUrl hands out, each one once; NoState
\* is a state parameter that was never issued
States == 1..MaxStates
NoState == 0

\* pendingOAuthStates (state -> timestamp, Null when absent) with the
\* bookkeeping of the callbacks: when each state was issued, how many
\* callbacks are awaiting completeOAuthFlow, how many passed the state check,
\* how many accounts each state added, and the last response sent
NewOAuth ==
    [pending |-> [s \in States |-> Null],
     issuedAt |-> [s \in States |-> 0],
     exchanging |-> [s \in States |-> 0],
     redeemed |-> [s \in States |-> 0],
     added |-> [s \in States |-> 0],
     callbacks |-> 0,
     last |-> [state |-> NoState, status |-> 0, age |-> 0]]

NoEntry == [present |-> FALSE, isRateLimited |-> FALSE, resetTime |-> Null]

NewAccount(email, source, projectId) ==
    [email |-> email, source |-> source, projectId |-> projectId, enabled |-> TRUE,
     isInvalid |-> FALSE, invalidReason |-> "",
     isRateLimited |-> FALSE, rateLimitResetTime |-> Null,
     modelRateLimits |-> [m \in Models |-> NoEntry]]

\* What one endpoint does with POST /v1internal:loadCodeAssist: fetch throws
\* or responds; the response is ok or not; response.json() throws, yields
\* null, or yields an object whose cloudaicompanionProject is a string, an
\* object with an id, or missing ("undefined"), with the ids of its paidTier
\* and currentTier ("" = none).
Response(fetch, ok, json, type, id, paidTier, currentTier) ==
    [fetch |-> fetch, ok |-> ok, json |-> json,
     cloudaicompanionProject |-> [type |-> type, id |-> id],
     paidTier |-> paidTier, currentTier |-> currentTier]

Responses ==
    { Response("throws", FALSE, "none", "undefined", "", "", ""),
      Response("responds", FALSE, "none", "undefined", "", "", ""),
      Response("responds", TRUE, "throws", "undefined", "", "", ""),
      Response("responds", TRUE, "null", "undefined", "", "", ""),
      Response("responds", TRUE, "object", "string", "proj-d", "", ""),
      Response("responds", TRUE, "object", "string", "", "", ""),
      Response("responds", TRUE, "object", "object", "proj-o", "", ""),
      Response("responds", TRUE, "object", "undefined", "", "", ""),
      Response("responds", TRUE, "object", "undefined", "", "standard-tier", ""),
      Response("responds", TRUE, "object", "undefined", "", "", "free-tier") }

OnboardOutcomes == {"", "proj-n"}      \* onboardUser: null or the new project
NoOnboarding == [called |-> FALSE, tierId |-> "", project |-> ""]
NoDiscovery == [called |-> FALSE, responses |-> <<>>, onboarded |-> "",
                project |-> "", contacted |-> <<>>, onboarding |-> NoOnboarding]
\* A log viewer before init(): no EventSource was created
NewLogs == [eventSource |-> 0, sources |-> <<>>, timers |-> 0, lines |-> 0]

VARIABLES accounts, now, tokenCache, projectCache, calls,
          built,              \* the upstream requests built so far
          sticky,             \* session id -> email of the account bound to it
          lastUsed,           \* email -> when the account was last selected
          stream,             \* the streaming translator of one response
          sigCache,           \* fingerprint -> cached thinking signature
          recovered,          \* the last thinking block converted for upstream
          exec,               \* the executor's state for one inbound request
          headers,            \* the last buildHeaders call and its result
          oauth,              \* the WebUI's pending OAuth flows and callbacks
          web,                \* the WebUI server's configuration state
          ui,                 \* the console's account list and its requests
          disc,               \* project lookups in flight and discoveries issued
          discovery,          \* the last discoverProject call and its result
          logs                \* the console's log viewer and its event sources
poolVars == <<accounts, now, tokenCache, projectCache, calls>>
webVars == <<headers, oauth, web, ui, disc>>
coreVars == <<built, sticky, lastUsed, stream, sigCache, recovered, exec>>
auxVars == <<discovery, logs>>
otherVars == <<coreVars, webVars, auxVars>>
vars == <<poolVars, otherVars>>

\* find falling back to the first account when no email matches
FindAccount_OrFirst(accs, email) ==
    IF \E i \in 1..Len(accs) : accs[i].email = email
    THEN CHOOSE i \in 1..Len(accs) :
            /\ accs[i].email = email
            /\ \A j \in 1..(i - 1) : accs[j].email # email
    ELSE IF Len(accs) > 0 THEN 1 ELSE 0

\* accounts.find(a => a.email === email): index of the first match, 0 if none
FindAccount(accs, email) ==
    IF \E i \in 1..Len(accs) : accs[i].email = email
    THEN CHOOSE i \in 1..Len(accs) :
            /\ accs[i].email = email
            /\ \A j \in 1..(i - 1) : accs[j].email # email
    ELSE 0

\* ------------------------------------------------------------ queries
ModelLimited(acc, modelId, t) ==
    LET limit == acc.modelRateLimits[modelId]
    IN  limit.present /\ limit.isRateLimited /\ Num(limit.resetTime) > t

\* isAllRateLimited with accounts.some for accounts.every
isAllRateLimited_Some(accs, modelId, t) ==
    IF Len(accs) = 0 THEN TRUE
    ELSE IF modelId # NoModel
    THEN \E i \in 1..Len(accs) :
            accs[i].isRateLimited \/ ModelLimited(accs[i], modelId, t)
    ELSE \E i \in 1..Len(accs) : accs[i].isRateLimited

isAllRateLimited(accs, modelId, t) ==
    IF Len(accs) = 0 THEN TRUE
    ELSE IF modelId # NoModel
    THEN \A i \in 1..Len(accs) :
            accs[i].isRateLimited \/ ModelLimited(accs[i], modelId, t)
    ELSE \A i \in 1..Len(accs) : accs[i].isRateLimited

\* getAvailableAccounts without its test of acc.isRateLimited
getAvailableAccounts_IgnoresGlobal(accs, modelId, t) ==
    LET Keep(acc) ==
            IF acc.isInvalid THEN FALSE
            ELSE IF modelId # NoModel /\ ModelLimited(acc, modelId, t) THEN FALSE
            ELSE TRUE
    IN  SelectSeq(accs, Keep)

getAvailableAccounts(accs, modelId, t) ==
    LET Keep(acc) ==
            IF acc.isInvalid THEN FALSE
            ELSE IF acc.isRateLimited THEN FALSE
            ELSE IF modelId # NoModel /\ ModelLimited(acc, modelId, t) THEN FALSE
            ELSE TRUE
    IN  SelectSeq(accs, Keep)

\* The loop of getMinWaitTimeMs over accounts i..Len(accs), carrying minWait.
RECURSIVE MinWaitLoop(_, _, _, _)
MinWaitLoop(accs, i, t, minWait) ==
    IF i > Len(accs) THEN minWait
    ELSE LET account == accs[i]
             wait == account.rateLimitResetTime - t
         IN  IF Truthy(account.rateLimitResetTime) /\ wait > 0 /\ wait < minWait
             THEN MinWaitLoop(accs, i + 1, t, wait)
             ELSE MinWaitLoop(accs, i + 1, t, minWait)

\* getMinWaitTimeMs without the wait > 0 test of its loop
getMinWaitTimeMs_NoPositiveTest(accs, t) ==
    IF ~isAllRateLimited(accs, NoModel, t) THEN 0
    ELSE LET Waits == {accs[i].rateLimitResetTime - t : i \in
                        {j \in 1..Len(accs) : Truthy(accs[j].rateLimitResetTime)}}
         IN  IF Waits = {} THEN DEFAULT_COOLDOWN_MS
             ELSE CHOOSE w \in Waits : \A v \in Waits : w <= v

getMinWaitTimeMs(accs, t) ==
    IF ~isAllRateLimited(accs, NoModel, t) THEN 0
    ELSE LET minWait == MinWaitLoop(accs, 1, t, Infinity)
         IN  IF minWait = Infinity THEN DEFAULT_COOLDOWN_MS ELSE minWait

\* ------------------------------------------------------------ mutations
\* the global test of clearExpiredLimits with < for <=
GlobalExpired_Strict(acc, t) ==
    acc.isRateLimited /\ Truthy(acc.rateLimitResetTime) /\ acc.rateLimitResetTime < t

GlobalExpired(acc, t) ==
    acc.isRateLimited /\ Truthy(acc.rateLimitResetTime) /\ acc.rateLimitResetTime <= t

EntryExpired(limit, t) ==
    limit.present /\ limit.isRateLimited /\ Num(limit.resetTime) <= t

\* the sweep of one account clearing the flags and leaving the reset times
ClearAccount_KeepsResetTime(acc, t) ==
    [acc EXCEPT
        !.isRateLimited = IF GlobalExpired(acc, t) THEN FALSE ELSE @,
        !.modelRateLimits = [m \in Models |->
            IF EntryExpired(acc.modelRateLimits[m], t)
            THEN [present |-> TRUE, isRateLimited |-> FALSE,
                  resetTime |-> acc.modelRateLimits[m].resetTime]
            ELSE acc.modelRateLimits[m]]]

ClearAccount(acc, t) ==
    [acc EXCEPT
        !.isRateLimited = IF GlobalExpired(acc, t) THEN FALSE ELSE @,
        !.rateLimitResetTime = IF GlobalExpired(acc, t) THEN Null ELSE @,
        !.modelRateLimits = [m \in Models |->
            IF EntryExpired(acc.modelRateLimits[m], t)
            THEN [present |-> TRUE, isRateLimited |-> FALSE, resetTime |-> Null]
            ELSE acc.modelRateLimits[m]]]

\* the count without the cleared++ of the model-specific limits
ClearedCount_GlobalOnly(acc, t) ==
    IF GlobalExpired(acc, t) THEN 1 ELSE 0

\* cleared++ for the global limit and for each model entry of one account
ClearedCount(acc, t) ==
    (IF GlobalExpired(acc, t) THEN 1 ELSE 0)
    + Cardinality({m \in Models : EntryExpired(acc.modelRateLimits[m], t)})

RECURSIVE ClearedLoop(_, _, _)
ClearedLoop(accs, i, t) ==
    IF i > Len(accs) THEN 0
    ELSE ClearedCount(accs[i], t) + ClearedLoop(accs, i + 1, t)

clearExpiredLimits(accs, t) ==
    [accounts |-> [i \in 1..Len(accs) |-> ClearAccount(accs[i], t)],
     ret |-> ClearedLoop(accs, 1, t)]

\* resetAllRateLimits without its loop over account.modelRateLimits
resetAllRateLimits_GlobalOnly(accs) ==
    [i \in 1..Len(accs) |->
        [accs[i] EXCEPT !.isRateLimited = FALSE, !.rateLimitResetTime = Null]]

\* resetAllRateLimits also wiping the invalid flag
resetAllRateLimits_ClearsInvalid(accs) ==
    [i \in 1..Len(accs) |->
        [accs[i] EXCEPT
            !.isInvalid = FALSE,
            !.isRateLimited = FALSE,
            !.rateLimitResetTime = Null,
            !.modelRateLimits = [m \in Models |->
                IF accs[i].modelRateLimits[m].present
                THEN [present |-> TRUE, isRateLimited |-> FALSE, resetTime |-> Null]
                ELSE accs[i].modelRateLimits[m]]]]

resetAllRateLimits(accs) ==
    [i \in 1..Len(accs) |->
        [accs[i] EXCEPT
            !.isRateLimited = FALSE,
            !.rateLimitResetTime = Null,
            !.modelRateLimits = [m \in Models |->
                IF accs[i].modelRateLimits[m].present
                THEN [present |-> TRUE, isRateLimited |-> FALSE, resetTime |-> Null]
                ELSE accs[i].modelRateLimits[m]]]]

\* the cooldown without the configured duration: resetMs || DEFAULT_COOLDOWN_MS
CooldownMs_IgnoresSettings(resetMs, cooldownDurationMs) ==
    IF Truthy(resetMs) THEN resetMs ELSE DEFAULT_COOLDOWN_MS

\* resetMs || settings.cooldownDurationMs || DEFAULT_COOLDOWN_MS
CooldownMs(resetMs, cooldownDurationMs) ==
    IF Truthy(resetMs) THEN resetMs
    ELSE IF Truthy(cooldownDurationMs) THEN cooldownDurationMs
    ELSE DEFAULT_COOLDOWN_MS

\* markRateLimited setting the global flag in the model-scoped branch too
markRateLimited_AlsoGlobal(accs, email, resetMs, cooldownDurationMs, modelId, t) ==
    LET i == FindAccount(accs, email)
        resetTime == t + CooldownMs(resetMs, cooldownDurationMs)
    IN  IF i = 0 THEN [accounts |-> accs, ret |-> FALSE]
        ELSE [accounts |->
                [accs EXCEPT
                    ![i].isRateLimited = TRUE,
                    ![i].rateLimitResetTime = resetTime,
                    ![i].modelRateLimits = [m \in Models |->
                        IF m = modelId
                        THEN [present |-> TRUE, isRateLimited |-> TRUE,
                              resetTime |-> resetTime]
                        ELSE @[m]]],
              ret |-> TRUE]

markRateLimited(accs, email, resetMs, cooldownDurationMs, modelId, t) ==
    LET i == FindAccount(accs, email)
        resetTime == t + CooldownMs(resetMs, cooldownDurationMs)
    IN  IF i = 0 THEN [accounts |-> accs, ret |-> FALSE]
        ELSE IF modelId # NoModel
        THEN [accounts |-> [accs EXCEPT ![i].modelRateLimits[modelId] =
                    [present |-> TRUE, isRateLimited |-> TRUE, resetTime |-> resetTime]],
              ret |-> TRUE]
        ELSE [accounts |-> [accs EXCEPT ![i].isRateLimited = TRUE,
                                        ![i].rateLimitResetTime = resetTime],
              ret |-> TRUE]

\* markInvalid dropping the account from the pool instead of flagging it
markInvalid_Removes(accs, email, reason) ==
    LET i == FindAccount(accs, email)
        Other(acc) == acc.email # email
    IN  IF i = 0 THEN [accounts |-> accs, ret |-> FALSE]
        ELSE [accounts |-> SelectSeq(accs, Other), ret |-> TRUE]

\* (the invalidAt timestamp is written here and read nowhere: not kept)
markInvalid(accs, email, reason) ==
    LET i == FindAccount(accs, email)
    IN  IF i = 0 THEN [accounts |-> accs, ret |-> FALSE]
        ELSE [accounts |-> [accs EXCEPT ![i].isInvalid = TRUE,
                                        ![i].invalidReason = reason],
              ret |-> TRUE]

\* ------------------------------------------------------------ credentials
\* A tokenCache entry {token, extractedAt}; present = FALSE is a missing key.
NoToken == [present |-> FALSE, token |-> 0, extractedAt |-> 0]
RefreshOutcomes == {"ok", "network", "rejected"}   \* refreshAccessToken
ManualApiKey == 0 - 2                               \* account.apiKey
DatabaseApiKey == 0 - 3                             \* getAuthStatus(dbPath).apiKey
DEFAULT_PROJECT_ID == "default-project"
DiscoveredProjects == {"proj-d", DEFAULT_PROJECT_ID} \* discoverProject(token)

\* The onInvalid callback the account manager passes to getTokenForAccount.
onInvalid(accs, email, reason) == markInvalid(accs, email, reason).accounts

\* cached && (Date.now() - cached.extractedAt) < TOKEN_REFRESH_INTERVAL_MS
CacheHit_NoExpiry(cached, t) == cached.present

CacheHit(cached, t) ==
    cached.present /\ (t - cached.extractedAt) < TOKEN_REFRESH_INTERVAL_MS

\* isNetworkError(error) for the error refreshAccessToken threw
isNetworkError_Never(refresh) == FALSE

isNetworkError(refresh) == refresh = "network"

\* getTokenForAccount storing a rejected refresh in the cache as an empty token
getTokenForAccount_CachesFailure(accs, cache, i, refresh, t) ==
    LET account == accs[i]
        cached == cache[account.email]
        Store(token) == [cache EXCEPT ![account.email] =
                            [present |-> TRUE, token |-> token, extractedAt |-> t]]
    IN  IF CacheHit(cached, t)
        THEN [accounts |-> accs, tokenCache |-> cache,
              result |-> "ok", token |-> cached.token]
        ELSE IF account.source = "oauth"
        THEN CASE refresh = "ok" ->
                    [accounts |-> IF account.isInvalid
                                  THEN [accs EXCEPT ![i].isInvalid = FALSE,
                                                    ![i].invalidReason = ""]
                                  ELSE accs,
                     tokenCache |-> Store(t), result |-> "ok", token |-> t]
               [] isNetworkError(refresh) ->
                    [accounts |-> accs, tokenCache |-> cache,
                     result |-> "AUTH_NETWORK_ERROR", token |-> Null]
               [] OTHER ->
                    [accounts |-> onInvalid(accs, account.email, "refresh rejected"),
                     tokenCache |-> Store(Null),
                     result |-> "AUTH_INVALID", token |-> Null]
        ELSE IF account.source = "manual"
        THEN [accounts |-> accs, tokenCache |-> Store(ManualApiKey),
              result |-> "ok", token |-> ManualApiKey]
        ELSE IF refresh = "ok"
        THEN [accounts |-> accs, tokenCache |-> Store(DatabaseApiKey),
              result |-> "ok", token |-> DatabaseApiKey]
        ELSE [accounts |-> accs, tokenCache |-> Store(Null),
              result |-> "EXTRACT_FAILED", token |-> Null]

\* getTokenForAccount for the account at index i; refresh is what the source
\* of a fresh token does if it is called: refreshAccessToken for an OAuth
\* account, getAuthStatus for a database account (anything but "ok" is a
\* throw). A fresh OAuth access token is identified by the time it was issued.
getTokenForAccount(accs, cache, i, refresh, t) ==
    LET account == accs[i]
        cached == cache[account.email]
        Store(token) == [cache EXCEPT ![account.email] =
                            [present |-> TRUE, token |-> token, extractedAt |-> t]]
    IN  IF CacheHit(cached, t)
        THEN [accounts |-> accs, tokenCache |-> cache,
              result |-> "ok", token |-> cached.token]
        ELSE IF account.source = "oauth"
        THEN CASE refresh = "ok" ->
                    [accounts |-> IF account.isInvalid
                                  THEN [accs EXCEPT ![i].isInvalid = FALSE,
                                                    ![i].invalidReason = ""]
                                  ELSE accs,
                     tokenCache |-> Store(t), result |-> "ok", token |-> t]
               [] isNetworkError(refresh) ->
                    [accounts |-> accs, tokenCache |-> cache,
                     result |-> "AUTH_NETWORK_ERROR", token |-> Null]
               [] OTHER ->
                    [accounts |-> onInvalid(accs, account.email, "refresh rejected"),
                     tokenCache |-> cache,
                     result |-> "AUTH_INVALID", token |-> Null]
        ELSE IF account.source = "manual"
        THEN [accounts |-> accs, tokenCache |-> Store(ManualApiKey),
              result |-> "ok", token |-> ManualApiKey]
        ELSE IF refresh = "ok"
        THEN [accounts |-> accs, tokenCache |-> Store(DatabaseApiKey),
              result |-> "ok", token |-> DatabaseApiKey]
        ELSE [accounts |-> accs, tokenCache |-> cache,
              result |-> "EXTRACT_FAILED", token |-> Null]

\* getProjectForAccount for the account at index i; discovered is what
\* discoverProject returns if it is called.
getProjectForAccount_IgnoresCache(accs, cache, i, discovered) ==
    LET account == accs[i]
    IN  IF account.projectId # ""
        THEN [projectCache |-> [cache EXCEPT ![account.email] = account.projectId],
              project |-> account.projectId, discovery |-> FALSE]
        ELSE [projectCache |-> [cache EXCEPT ![account.email] = discovered],
              project |-> discovered, discovery |-> TRUE]

getProjectForAccount(accs, cache, i, discovered) ==
    LET account == accs[i]
        cached == cache[account.email]
    IN  IF cached # ""
        THEN [projectCache |-> cache, project |-> cached, discovery |-> FALSE]
        ELSE IF account.projectId # ""
        THEN [projectCache |-> [cache EXCEPT ![account.email] = account.projectId],
              project |-> account.projectId, discovery |-> FALSE]
        ELSE [projectCache |-> [cache EXCEPT ![account.email] = discovered],
              project |-> discovered, discovery |-> TRUE]

\* email = "" is the null argument: clear every entry
clearProjectCache(cache, email) ==
    IF email # "" THEN [cache EXCEPT ![email] = ""] ELSE [e \in DOMAIN cache |-> ""]

clearTokenCache_All(cache, email) == [e \in DOMAIN cache |-> NoToken]

clearTokenCache(cache, email) ==
    IF email # "" THEN [cache EXCEPT ![email] = NoToken]
    ELSE [e \in DOMAIN cache |-> NoToken]

\* ------------------------------------------------------------ the pool
\* AccountManager.setAccountEnabled, called by POST /api/accounts/:email/toggle
setAccountEnabled(accs, email, enabled) ==
    LET i == FindAccount(accs, email)
    IN  IF i = 0 THEN accs ELSE [accs EXCEPT ![i].enabled = enabled]

ResetMsInputs == {Null} \cup (0..MaxResetMs)   \* resetMs = null, 0, 1, ...
CooldownSettings == {Null, 0, 1}               \* settings.cooldownDurationMs
ModelInputs == Models \cup {NoModel}
EmailInputs == Emails \cup {UnknownEmail}
InitialPools ==
    { <<>>,
      <<NewAccount("a@x", "oauth", "")>>,
      <<NewAccount("a@x", "oauth", ""), NewAccount("b@x", "manual", "proj-b")>> }

\* Pools that hold an account whose token is read from the local database
DatabasePools ==
    { <<NewAccount("a@x", "database", "")>>,
      <<NewAccount("a@x", "database", ""), NewAccount("b@x", "oauth", "")>> }

InitOf(pools) ==
    /\ accounts \in pools
    /\ now = 1
    /\ tokenCache = [e \in Emails |-> NoToken]
    /\ projectCache = [e \in Emails |-> ""]
    /\ calls = 0
    /\ built = <<>>
    /\ sticky = [s \in Sessions |-> NoAccount]
    /\ lastUsed = [e \in Emails |-> 0]
    /\ stream = NewStream
    /\ sigCache = [f \in Fingerprints |-> NoSignature]
    /\ recovered = [inbound |-> NoSignature]
    /\ exec = [phase |-> "idle", model |-> NoModel, account |-> NoAccount,
               attempt |-> 0, waited |-> FALSE, waitMs |-> 0, outcome |-> ""]
    /\ headers = NoCall
    /\ oauth = NewOAuth
    /\ web = NewWeb
    /\ ui = NewUi
    /\ disc = NewDisc
    /\ discovery = NoDiscovery
    /\ logs = NewLogs

Init == InitOf(InitialPools)

InitCred == InitOf(InitialPools \cup DatabasePools)

\* Date.now() advances between two calls
Tick ==
    /\ now < MaxNow
    /\ now' = now + 1
    /\ UNCHANGED <<accounts, tokenCache, projectCache, calls, otherVars>>

MarkRateLimitedStep(email, resetMs, cooldownDurationMs, modelId) ==
    /\ calls < MaxCalls
    /\ calls' = calls + 1
    /\ accounts' = markRateLimited(accounts, email, resetMs, cooldownDurationMs,
                                   modelId, now).accounts
    /\ UNCHANGED <<now, tokenCache, projectCache, otherVars>>

MarkRateLimited ==
    \E email \in EmailInputs, resetMs \in ResetMsInputs,
       cooldownDurationMs \in CooldownSettings, modelId \in ModelInputs :
        MarkRateLimitedStep(email, resetMs, cooldownDurationMs, modelId)

MarkInvalidStep(email) ==
    /\ calls < MaxCalls
    /\ calls' = calls + 1
    /\ accounts' = markInvalid(accounts, email, "invalid_grant").accounts
    /\ UNCHANGED <<now, tokenCache, projectCache, otherVars>>

MarkInvalid == \E email \in EmailInputs : MarkInvalidStep(email)

ClearExpired ==
    /\ accounts' = clearExpiredLimits(accounts, now).accounts
    /\ UNCHANGED <<now, tokenCache, projectCache, calls, otherVars>>

ResetAll ==
    /\ accounts' = resetAllRateLimits(accounts)
    /\ UNCHANGED <<now, tokenCache, projectCache, calls, otherVars>>

SetAccountEnabled ==
    \E email \in Emails, enabled \in BOOLEAN :
        /\ calls < MaxCalls
        /\ calls' = calls + 1
        /\ accounts' = setAccountEnabled(accounts, email, enabled)
        /\ UNCHANGED <<now, tokenCache, projectCache, otherVars>>

Next ==
    \/ Tick
    \/ MarkRateLimited
    \/ MarkInvalid
    \/ ClearExpired
    \/ ResetAll
    \/ SetAccountEnabled

Spec == Init /\ [][Next]_vars

GetTokenForAccountStep(i, refresh) ==
    LET r == getTokenForAccount(accounts, tokenCache, i, refresh, now)
    IN  /\ calls < MaxCalls
        /\ calls' = calls + 1
        /\ accounts' = r.accounts
        /\ tokenCache' = r.tokenCache
        /\ UNCHANGED <<now, projectCache, otherVars>>

GetTokenForAccount ==
    \E i \in 1..Len(accounts), refresh \in RefreshOutcomes :
        GetTokenForAccountStep(i, refresh)

GetProjectForAccountStep(i, discovered) ==
    /\ calls < MaxCalls
    /\ calls' = calls + 1
    /\ projectCache' = getProjectForAccount(accounts, projectCache, i, discovered).projectCache
    /\ UNCHANGED <<accounts, now, tokenCache, otherVars>>

GetProjectForAccount ==
    \E i \in 1..Len(accounts), discovered \in DiscoveredProjects :
        GetProjectForAccountStep(i, discovered)

\* POST /api/accounts/:email/refresh
RefreshAccountStep(email) ==
    /\ tokenCache' = clearTokenCache(tokenCache, email)
    /\ projectCache' = clearProjectCache(projectCache, email)
    /\ UNCHANGED <<accounts, now, calls, otherVars>>

RefreshAccount == \E email \in Emails : RefreshAccountStep(email)

\* markRateLimited(email) with neither a reset duration nor a model
MarkRateLimitedDefault ==
    \E email \in EmailInputs : MarkRateLimitedStep(email, Null, Null, NoModel)

NextCred ==
    \/ Tick
    \/ GetTokenForAccount
    \/ GetProjectForAccount
    \/ RefreshAccount
    \/ MarkInvalid
    \/ MarkRateLimitedDefault
    \/ ClearExpired
    \/ ResetAll

\* The credential operations, with the rate-limit bookkeeping at its defaults
SpecCred == InitCred /\ [][NextCred]_vars

\* ------------------------------------------------- cloudcode/request-builder
MaxTurns == 2            \* messages of one request

\* A content block of the client protocol. cache_control = TRUE is a block
\* that carries a cache_control key; content is the nested block list of a
\* tool_result.
Block(type, text, cacheControl, content) ==
    [type |-> type, text |-> text, cache_control |-> cacheControl,
     content |-> content]

Contents ==
    { <<Block("text", "hi", TRUE, <<>>)>>,
      <<Block("thinking", "hm", TRUE, <<>>), Block("text", "yo", TRUE, <<>>),
        Block("tool_use", "", TRUE, <<>>)>>,
      <<Block("tool_result", "", TRUE, <<Block("text", "out", TRUE, <<>>)>>),
        Block("text", "yo", FALSE, <<>>)>> }

Turns == [role : {"user", "assistant"}, content : Contents]

RECURSIVE SeqsUpTo(_, _)
SeqsUpTo(S, n) ==
    IF n = 0 THEN {<<>>}
    ELSE LET shorter == SeqsUpTo(S, n - 1)
         IN  shorter \cup {Append(q, x) : q \in {r \in shorter : Len(r) = n - 1}, x \in S}

Messages == SeqsUpTo(Turns, MaxTurns) \ {<<>>}

\* anthropicRequest.system: no system prompt, or text blocks of which one
\* carries cache_control and one has no text
SystemInputs ==
    { <<>>,
      <<[text |-> "be brief", cache_control |-> TRUE],
        [text |-> "", cache_control |-> FALSE],
        [text |-> "use tools", cache_control |-> FALSE]>> }

\* anthropicRequest.model, split at '/'
ModelNames == { <<"gc", "gemini-3-flash">>, <<"gemini-3-flash">>, <<"gc", "claude-sonnet">> }
AuthTypes == {"antigravity", "gemini-cli"}
ProjectIds == {"proj-d", "proj-b"}
UUIDs == {"u1", "u2"}     \* crypto.randomUUID()

AnthropicRequests == [model : ModelNames, system : SystemInputs, messages : Messages]

\* MODEL_ALIASES[authType][model]; <<>> is no alias
\* MODEL_ALIASES[authType][model], the empty name when there is none
ModelAlias_AnyAuthType(authType, model) ==
    IF model = <<"gemini-3-flash">> THEN <<"gemini-3-flash-preview">> ELSE <<>>

ModelAlias(authType, model) ==
    IF authType = "gemini-cli" /\ model = <<"gemini-3-flash">>
    THEN <<"gemini-3-flash-preview">> ELSE <<>>

ANTIGRAVITY_SYSTEM_INSTRUCTION == "You are Antigravity"
\* `Please ignore the following [ignore]${ANTIGRAVITY_SYSTEM_INSTRUCTION}[/ignore]`
IgnoreWrapped == "Please ignore the following [ignore]You are Antigravity[/ignore]"

\* format/index.js, request direction: one upstream part per content block,
\* without the block's cache_control, at every nesting depth
RECURSIVE ConvertBlock(_)
ConvertBlock(b) ==
    [kind |-> b.type, text |-> b.text, cache_control |-> FALSE,
     content |-> [k \in 1..Len(b.content) |-> ConvertBlock(b.content[k])]]

convertAnthropicToGoogle(anthropicRequest) ==
    LET messages == anthropicRequest.messages
        system == anthropicRequest.system
    IN  [contents |-> [k \in 1..Len(messages) |->
            [role |-> IF messages[k].role = "assistant" THEN "model" ELSE "user",
             parts |-> [j \in 1..Len(messages[k].content) |->
                           ConvertBlock(messages[k].content[j])]]],
         systemInstruction |->
            [present |-> system # <<>>,
             parts |-> [k \in 1..Len(system) |->
                           [text |-> system[k].text, cache_control |-> FALSE]]]]

\* The request forwarded as it came: every block becomes a part unchanged
RECURSIVE CopyBlock(_)
CopyBlock(b) ==
    [kind |-> b.type, text |-> b.text, cache_control |-> b.cache_control,
     content |-> [k \in 1..Len(b.content) |-> CopyBlock(b.content[k])]]

UnconvertedRequest(anthropicRequest) ==
    LET messages == anthropicRequest.messages
        system == anthropicRequest.system
    IN  [contents |-> [k \in 1..Len(messages) |->
            [role |-> messages[k].role,
             parts |-> [j \in 1..Len(messages[k].content) |->
                           CopyBlock(messages[k].content[j])]]],
         systemInstruction |->
            [present |-> system # <<>>,
             parts |-> [k \in 1..Len(system) |->
                           [text |-> system[k].text,
                            cache_control |-> system[k].cache_control]]]]

\* session-manager.js: the digest of the text of the first user message.
\* The digest of a text is the pair <<"sha256", text>>: equal texts, and
\* only equal texts, have equal digests.
RECURSIVE TextOf(_)
TextOf(content) ==
    IF content = <<>> THEN <<>>
    ELSE (IF Head(content).type = "text" THEN <<Head(content).text>> ELSE <<>>)
         \o TextOf(Tail(content))

FirstUserMessage(messages) ==
    IF \E k \in 1..Len(messages) : messages[k].role = "user"
    THEN CHOOSE k \in 1..Len(messages) :
            /\ messages[k].role = "user"
            /\ \A j \in 1..(k - 1) : messages[j].role # "user"
    ELSE 0

deriveSessionId(anthropicRequest) ==
    LET messages == anthropicRequest.messages
        k == FirstUserMessage(messages)
    IN  <<"sha256", IF k = 0 THEN <<>> ELSE TextOf(messages[k].content)>>

\* systemParts.push({ text: part.text }) for every part with a text
TextParts_KeepsEmpty(parts) == [k \in 1..Len(parts) |-> [text |-> parts[k].text]]

RECURSIVE TextParts(_)
TextParts(parts) ==
    IF parts = <<>> THEN <<>>
    ELSE (IF Head(parts).text # "" THEN <<[text |-> Head(parts).text]>> ELSE <<>>)
         \o TextParts(Tail(parts))

\* The body of buildCloudCodeRequest after the conversion and the session
\* id are at hand
BuildPayload(anthropicRequest, projectId, authType, uuid, googleRequest, sessionId) ==
    LET named == anthropicRequest.model
        stripped == IF Len(named) > 1 /\ Head(named) = "gc" THEN Tail(named) ELSE named
        model == IF ModelAlias(authType, stripped) # <<>>
                 THEN ModelAlias(authType, stripped) ELSE stripped
        systemParts ==
            << [text |-> ANTIGRAVITY_SYSTEM_INSTRUCTION],
               [text |-> IgnoreWrapped] >>
            \o (IF googleRequest.systemInstruction.present
                THEN TextParts(googleRequest.systemInstruction.parts) ELSE <<>>)
    IN  [project |-> projectId,
         model |-> model,
         request |-> [contents |-> googleRequest.contents,
                      sessionId |-> sessionId,
                      systemInstruction |-> [role |-> "user", parts |-> systemParts]],
         userAgent |-> IF authType = "gemini-cli" THEN "gemini-cli" ELSE "antigravity",
         requestType |-> "agent",
         requestId |-> <<"agent-", uuid>>]

buildCloudCodeRequest_Unconverted(anthropicRequest, projectId, authType, uuid) ==
    BuildPayload(anthropicRequest, projectId, authType, uuid,
                 UnconvertedRequest(anthropicRequest),
                 deriveSessionId(anthropicRequest))

buildCloudCodeRequest_SessionPerProject(anthropicRequest, projectId, authType, uuid) ==
    BuildPayload(anthropicRequest, projectId, authType, uuid,
                 convertAnthropicToGoogle(anthropicRequest),
                 <<"sha256", <<projectId>> \o deriveSessionId(anthropicRequest)[2]>>)

buildCloudCodeRequest(anthropicRequest, projectId, authType, uuid) ==
    BuildPayload(anthropicRequest, projectId, authType, uuid,
                 convertAnthropicToGoogle(anthropicRequest),
                 deriveSessionId(anthropicRequest))

\* The upstream protocol rejects a payload with a field it does not know
UpstreamOutcome(payload) ==
    LET contents == payload.request.contents
        systemParts == payload.request.systemInstruction.parts
        Unknown(part) ==
            \/ part.cache_control
            \/ \E n \in 1..Len(part.content) : part.content[n].cache_control
    IN  IF (\E k \in 1..Len(contents) :
               \E j \in 1..Len(contents[k].parts) : Unknown(contents[k].parts[j]))
           \/ (\E k \in 1..Len(systemParts) :
                  "cache_control" \in DOMAIN systemParts[k])
        THEN "error" ELSE "ok"

\* One request is built from the client's request and the selected
\* account's project and credential type
BuildCloudCodeRequest ==
    \E anthropicRequest \in AnthropicRequests, projectId \in ProjectIds,
       authType \in AuthTypes, uuid \in UUIDs :
        /\ built = <<>>
        /\ built' = <<[request |-> anthropicRequest, projectId |-> projectId,
                       authType |-> authType,
                       payload |-> buildCloudCodeRequest(anthropicRequest, projectId,
                                                         authType, uuid)]>>
        /\ UNCHANGED <<webVars, auxVars, poolVars, sticky, lastUsed, stream, sigCache, recovered, exec>>

InitBuild == Init /\ accounts = <<>>
NextBuild == BuildCloudCodeRequest
SpecBuild == InitBuild /\ [][NextBuild]_vars

\* ------------------------------------------------ account-manager selection
MaxLimitMs == 3          \* longest reset duration an upstream 429 carries
StickyThresholdMs == 2   \* "rate-limited for > 2 minutes", one unit a minute

\* How long account acc stays rate-limited for modelId, 0 if it is not:
\* the later of its global and its per-model reset time
RemainingLimitMs(acc, modelId, t) ==
    LET global == IF acc.isRateLimited /\ Num(acc.rateLimitResetTime) > t
                  THEN acc.rateLimitResetTime - t ELSE 0
        model == IF modelId # NoModel /\ ModelLimited(acc, modelId, t)
                 THEN acc.modelRateLimits[modelId].resetTime - t ELSE 0
    IN  IF global > model THEN global ELSE model

\* enabled, valid and not rate-limited (globally or for modelId)
Eligible(accs, modelId, t) ==
    SelectSeq(getAvailableAccounts(accs, modelId, t), LAMBDA acc : acc.enabled)

\* The least recently used of the accounts in candidates
LeastRecentlyUsed(candidates, used) ==
    CHOOSE k \in 1..Len(candidates) :
        \A j \in 1..Len(candidates) :
            \/ used[candidates[k].email] < used[candidates[j].email]
            \/ used[candidates[k].email] = used[candidates[j].email] /\ k <= j

\* Selection that fails over as soon as the sticky account is rate-limited
selectAccount_NoGrace(accs, stickyOf, used, session, modelId, t, tick) ==
    LET i == FindAccount(accs, stickyOf[session])
        eligible == Eligible(accs, modelId, t)
    IN  IF i # 0 /\ accs[i].enabled /\ ~accs[i].isInvalid
           /\ RemainingLimitMs(accs[i], modelId, t) = 0 /\ ~accs[i].isRateLimited
        THEN [account |-> accs[i].email, sticky |-> stickyOf,
              lastUsed |-> [used EXCEPT ![accs[i].email] = tick], waitMs |-> 0]
        ELSE IF Len(eligible) > 0
        THEN LET next == eligible[LeastRecentlyUsed(eligible, used)].email
             IN  [account |-> next, sticky |-> [stickyOf EXCEPT ![session] = next],
                  lastUsed |-> [used EXCEPT ![next] = tick], waitMs |-> 0]
        ELSE [account |-> NoAccount, sticky |-> stickyOf, lastUsed |-> used,
              waitMs |-> getMinWaitTimeMs(accs, t)]

\* The selection algorithm for a session and a target model; tick is the
\* use counter written to the selected account
selectAccount(accs, stickyOf, used, session, modelId, t, tick) ==
    LET i == FindAccount(accs, stickyOf[session])
        usable == i # 0 /\ accs[i].enabled /\ ~accs[i].isInvalid
        remaining == IF i = 0 THEN 0 ELSE RemainingLimitMs(accs[i], modelId, t)
        limited == i # 0 /\ (remaining > 0 \/ accs[i].isRateLimited)
        eligible == Eligible(accs, modelId, t)
    IN  IF usable /\ ~limited
        THEN [account |-> accs[i].email, sticky |-> stickyOf,
              lastUsed |-> [used EXCEPT ![accs[i].email] = tick], waitMs |-> 0]
        ELSE IF usable /\ limited /\ remaining < StickyThresholdMs
        THEN [account |-> accs[i].email, sticky |-> stickyOf,
              lastUsed |-> [used EXCEPT ![accs[i].email] = tick],
              waitMs |-> remaining]
        ELSE IF Len(eligible) > 0
        THEN LET next == eligible[LeastRecentlyUsed(eligible, used)].email
             IN  [account |-> next, sticky |-> [stickyOf EXCEPT ![session] = next],
                  lastUsed |-> [used EXCEPT ![next] = tick], waitMs |-> 0]
        ELSE [account |-> NoAccount, sticky |-> stickyOf, lastUsed |-> used,
              waitMs |-> getMinWaitTimeMs(accs, t)]

SelectAccountStep(session, modelId) ==
    LET r == selectAccount(accounts, sticky, lastUsed, session, modelId, now, calls + 1)
    IN  /\ calls < MaxCalls
        /\ calls' = calls + 1
        /\ sticky' = r.sticky
        /\ lastUsed' = r.lastUsed
        /\ UNCHANGED <<webVars, auxVars, accounts, now, tokenCache, projectCache, built, stream,
                       sigCache, recovered, exec>>

SelectAccount ==
    \E session \in Sessions, modelId \in Models : SelectAccountStep(session, modelId)

\* An upstream 429 for the account, with the reset duration it carries
RateLimitFor ==
    \E email \in Emails, resetMs \in 1..MaxLimitMs, modelId \in ModelInputs :
        MarkRateLimitedStep(email, resetMs, Null, modelId)

InitSelect == Init /\ Len(accounts) = 2
NextSelect ==
    \/ Tick
    \/ SelectAccount
    \/ RateLimitFor
    \/ MarkInvalid
    \/ SetAccountEnabled
    \/ ClearExpired

SpecSelect == InitSelect /\ [][NextSelect]_vars

\* ------------------------------------------------------ streaming translator
MaxParts == 3            \* incremental units of one upstream stream

PartKinds == {"thinking", "tool_use", "text"}
UpstreamStreams == SeqsUpTo(PartKinds, MaxParts)

\* blockState of the translator for a part of the given kind
OpenState(kind) ==
    CASE kind = "thinking" -> "openThinking"
      [] kind = "tool_use" -> "openToolUse"
      [] OTHER -> "openText"

Event(type, index) == [type |-> type, index |-> index]

\* A translator that opens a block of a new type under the index of the
\* block it closes
translatePart_ReusesIndex(st, kind) ==
    IF st.blockState = OpenState(kind)
    THEN [st EXCEPT !.events = Append(@, Event("content_block_delta", st.blockIndex))]
    ELSE LET index == IF st.blockState = "none" THEN st.nextIndex ELSE st.blockIndex
         IN  [st EXCEPT
                !.blockState = OpenState(kind),
                !.blockIndex = index,
                !.nextIndex = index + 1,
                !.events = (IF st.blockState = "none" THEN @
                            ELSE Append(@, Event("content_block_stop", st.blockIndex)))
                           \o << Event("content_block_start", index),
                                 Event("content_block_delta", index) >>]

\* One upstream incremental unit: a block-type change closes the old block
\* and opens the new one under the next index before the delta is emitted
translatePart(st, kind) ==
    IF st.blockState = OpenState(kind)
    THEN [st EXCEPT !.events = Append(@, Event("content_block_delta", st.blockIndex))]
    ELSE [st EXCEPT
            !.blockState = OpenState(kind),
            !.blockIndex = st.nextIndex,
            !.nextIndex = st.nextIndex + 1,
            !.events = (IF st.blockState = "none" THEN @
                        ELSE Append(@, Event("content_block_stop", st.blockIndex)))
                       \o << Event("content_block_start", st.nextIndex),
                             Event("content_block_delta", st.nextIndex) >>]

\* AwaitingStart -> Streaming
StreamStart ==
    \E parts \in UpstreamStreams :
        /\ stream.phase = "AwaitingStart"
        /\ stream' = [stream EXCEPT !.phase = "Streaming", !.upstream = parts,
                                    !.events = <<Event("message_start", 0 - 1)>>]
        /\ UNCHANGED <<webVars, auxVars, poolVars, built, sticky, lastUsed, sigCache, recovered, exec>>

StreamPart ==
    /\ stream.phase = "Streaming"
    /\ stream.upstream # <<>>
    /\ stream' = [translatePart(stream, Head(stream.upstream))
                     EXCEPT !.upstream = Tail(stream.upstream)]
    /\ UNCHANGED <<webVars, auxVars, poolVars, built, sticky, lastUsed, sigCache, recovered, exec>>

\* The upstream stream ends: the open block is closed, then the message
StreamFinish ==
    /\ stream.phase = "Streaming"
    /\ stream.upstream = <<>>
    /\ stream' = [stream EXCEPT
          !.phase = "Done",
          !.blockState = "none",
          !.events = (IF stream.blockState = "none" THEN @
                      ELSE Append(@, Event("content_block_stop", stream.blockIndex)))
                     \o << Event("message_delta", 0 - 1), Event("message_stop", 0 - 1) >>]
    /\ UNCHANGED <<webVars, auxVars, poolVars, built, sticky, lastUsed, sigCache, recovered, exec>>

\* An upstream error mid-stream: one terminal error event, no resumption
StreamError ==
    /\ stream.phase = "Streaming"
    /\ stream' = [stream EXCEPT !.phase = "Done",
                                !.events = Append(@, Event("error", 0 - 1))]
    /\ UNCHANGED <<webVars, auxVars, poolVars, built, sticky, lastUsed, sigCache, recovered, exec>>

InitStream == Init /\ accounts = <<>>
NextStream ==
    \/ StreamStart
    \/ StreamPart
    \/ StreamFinish
    \/ StreamError

SpecStream == InitStream /\ [][NextStream]_vars

\* ----------------------------------------------------------- signature cache
Families == {"claude", "gemini"}         \* getModelFamily(model)
Signatures == {"sigA", "sigB"}
SKIP_SIGNATURE == "skip_thought_signature_validator"

\* SignatureCache.get / put
getSignature(cache, fingerprint) == cache[fingerprint]
putSignature(cache, fingerprint, token) == [cache EXCEPT ![fingerprint] = token]

\* Recovery that never consults the cache
recoverSignature_NoCache(cache, family, fingerprint, signature) ==
    IF signature # NoSignature
    THEN [kept |-> TRUE, signature |-> signature, failed |-> FALSE]
    ELSE IF family = "gemini"
    THEN [kept |-> TRUE, signature |-> SKIP_SIGNATURE, failed |-> FALSE]
    ELSE [kept |-> FALSE, signature |-> NoSignature, failed |-> FALSE]

\* Thinking-block handling of the request conversion: a block that arrives
\* without its signature gets the cached one; without a match the block is
\* omitted for the Claude family, and gets the sentinel for the Gemini family
recoverSignature(cache, family, fingerprint, signature) ==
    IF signature # NoSignature
    THEN [kept |-> TRUE, signature |-> signature, failed |-> FALSE]
    ELSE IF getSignature(cache, fingerprint) # NoSignature
    THEN [kept |-> TRUE, signature |-> getSignature(cache, fingerprint),
          failed |-> FALSE]
    ELSE IF family = "gemini"
    THEN [kept |-> TRUE, signature |-> SKIP_SIGNATURE, failed |-> FALSE]
    ELSE [kept |-> FALSE, signature |-> NoSignature, failed |-> FALSE]

\* Response direction: the signature of a newly produced thinking block is
\* written to the cache under its fingerprint
CacheSignature ==
    \E fingerprint \in Fingerprints, token \in Signatures :
        /\ sigCache' = putSignature(sigCache, fingerprint, token)
        /\ UNCHANGED <<webVars, auxVars, poolVars, built, sticky, lastUsed, stream, recovered, exec>>

\* Eviction (capacity or age) drops an entry
EvictSignature ==
    \E fingerprint \in Fingerprints :
        /\ sigCache[fingerprint] # NoSignature
        /\ sigCache' = putSignature(sigCache, fingerprint, NoSignature)
        /\ UNCHANGED <<webVars, auxVars, poolVars, built, sticky, lastUsed, stream, recovered, exec>>

\* Request direction: a thinking block of the next turn is converted
ConvertThinkingStep(family, fingerprint, signature) ==
    /\ recovered' = [family |-> family, fingerprint |-> fingerprint,
                     inbound |-> signature,
                     block |-> recoverSignature(sigCache, family, fingerprint, signature)]
    /\ UNCHANGED <<webVars, auxVars, poolVars, built, sticky, lastUsed, stream, sigCache, exec>>

ConvertThinking ==
    \E family \in Families, fingerprint \in Fingerprints,
       signature \in Signatures \cup {NoSignature} :
        ConvertThinkingStep(family, fingerprint, signature)

InitSig == Init /\ accounts = <<>>
NextSig ==
    \/ CacheSignature
    \/ EvictSignature
    \/ ConvertThinking

SpecSig == InitSig /\ [][NextSig]_vars

\* ------------------------------------------------------------------ executor
MaxAttempts == 2         \* configured attempt ceiling of same-account retries
MaxWaitMs == 2           \* cap of the wait for an exhausted pool

AttemptOutcomes == {"ok", "network", "rate_limit", "auth", "api"}

\* The next account of the pool for modelId, NoAccount if none is eligible
NextAccount(accs, modelId, t) ==
    IF Len(Eligible(accs, modelId, t)) > 0
    THEN Eligible(accs, modelId, t)[1].email ELSE NoAccount

\* No account is left for the request: if the pool reports all accounts
\* rate-limited and the request has not waited yet, block for the pool's
\* minimum wait (capped); otherwise surface the error
PoolExhausted(ex, accs, t) ==
    IF isAllRateLimited(accs, ex.model, t) /\ ~ex.waited
    THEN [ex EXCEPT !.phase = "waiting", !.account = NoAccount,
                    !.waitMs = IF getMinWaitTimeMs(accs, t) > MaxWaitMs
                               THEN MaxWaitMs ELSE getMinWaitTimeMs(accs, t)]
    ELSE [ex EXCEPT !.phase = "done", !.outcome = "error"]

\* Failover to the next account of the pool, or the exhausted pool
Failover(ex, accs, t) ==
    IF ex.waited THEN [ex EXCEPT !.phase = "done", !.outcome = "error"]
    ELSE IF NextAccount(accs, ex.model, t) # NoAccount
    THEN [ex EXCEPT !.phase = "attempting", !.attempt = 0,
                    !.account = NextAccount(accs, ex.model, t)]
    ELSE PoolExhausted(ex, accs, t)

\* An inbound request for modelId arrives
ExecStart ==
    \E modelId \in Models :
        /\ exec.phase = "idle"
        /\ exec' = Failover([exec EXCEPT !.model = modelId], accounts, now)
        /\ UNCHANGED <<webVars, auxVars, poolVars, built, sticky, lastUsed, stream, sigCache, recovered>>

\* The upstream call of the current attempt returns; scope is the scope of
\* a rate limit (the model, or NoModel for all models)
ExecAttemptStep(outcome, resetMs, scope) ==
    /\ exec.phase = "attempting"
    /\ CASE outcome = "ok" ->
              /\ exec' = [exec EXCEPT !.phase = "done", !.outcome = "response"]
              /\ UNCHANGED accounts
         [] outcome = "network" ->
              /\ exec' = IF ~exec.waited /\ exec.attempt + 1 < MaxAttempts
                         THEN [exec EXCEPT !.attempt = @ + 1]
                         ELSE [exec EXCEPT !.phase = "done", !.outcome = "error"]
              /\ UNCHANGED accounts
         [] outcome = "rate_limit" ->
              /\ accounts' = markRateLimited(accounts, exec.account, resetMs, Null,
                                             scope, now).accounts
              /\ exec' = Failover(exec, accounts', now)
         [] outcome = "auth" ->
              /\ accounts' = markInvalid(accounts, exec.account, "auth").accounts
              /\ exec' = Failover(exec, accounts', now)
         [] OTHER ->
              /\ exec' = [exec EXCEPT !.phase = "done", !.outcome = "error"]
              /\ UNCHANGED accounts
    /\ UNCHANGED <<webVars, auxVars, now, tokenCache, projectCache, calls, built, sticky, lastUsed,
                   stream, sigCache, recovered>>

ExecAttempt ==
    \E outcome \in AttemptOutcomes, resetMs \in ResetMsInputs,
       scope \in {exec.model, NoModel} :
        ExecAttemptStep(outcome, resetMs, scope)

\* The wait for the exhausted pool is over: expired limits are swept and
\* one final attempt is made
ExecWake ==
    /\ exec.phase = "waiting"
    /\ now' = now + exec.waitMs
    /\ accounts' = clearExpiredLimits(accounts, now').accounts
    /\ exec' = IF NextAccount(accounts', exec.model, now') # NoAccount
               THEN [exec EXCEPT !.phase = "attempting", !.attempt = 0,
                                 !.waited = TRUE,
                                 !.account = NextAccount(accounts', exec.model, now')]
               ELSE [exec EXCEPT !.phase = "done", !.waited = TRUE,
                                 !.outcome = "error"]
    /\ UNCHANGED <<webVars, auxVars, tokenCache, projectCache, calls, built, sticky, lastUsed,
                   stream, sigCache, recovered>>

NextExec ==
    \/ ExecStart
    \/ ExecAttempt
    \/ ExecWake

SpecExec == Init /\ [][NextExec]_vars

\* ------------------------------------------------- upstream request headers
NoFingerprint == [deviceId |-> ""]
NoHeader == ""

\* generateFingerprint(): a device id, a user agent, an SDK client, client
\* metadata and a quota user drawn at random
DeviceFingerprints ==
    [deviceId : {"dev-1", "dev-2"},
     userAgent : {"antigravity/1.11.5 darwin/arm64", "antigravity/1.12.0 linux/x64"},
     apiClient : {"google-cloud-sdk vscode/1.86.0"},
     clientMetadata : {[ideType |-> "VSCODE", platform |-> "MACOS"]},
     quotaUser : {"device-0a", "device-0b"}]

HeaderModels == {"claude-sonnet-4-5-thinking", "claude-sonnet-4-5", "gemini-3-flash"}
Tokens == {"ya29.a", "ya29.b"}
Accepts == {"application/json", "text/event-stream"}

getModelFamily(model) ==
    IF model \in {"claude-sonnet-4-5-thinking", "claude-sonnet-4-5"}
    THEN "claude" ELSE "gemini"

isThinkingModel(model) == model = "claude-sonnet-4-5-thinking"

\* The fixed headers of the default credential type, and the user agent of
\* the gemini-cli credential type
ANTIGRAVITY_HEADERS ==
    [h \in {"User-Agent", "X-Goog-Api-Client", "Client-Metadata"} |->
        CASE h = "User-Agent" -> "antigravity/default"
          [] h = "X-Goog-Api-Client" -> "google-cloud-sdk default"
          [] h = "Client-Metadata" -> "default-metadata"]

GEMINI_CLI_USER_AGENT == "gemini-cli/default"

\* { ...a, ...b }: the keys of both, b's value where both have the key
Spread(a, b) == b @@ a

\* buildHeaders(token, model, accept, authType, fingerprint): the fingerprint
\* parameter is accepted and not used
buildHeaders(token, model, accept, authType, fingerprint) ==
    LET baseHeaders ==
            IF authType = "gemini-cli"
            THEN [h \in {"User-Agent"} |-> GEMINI_CLI_USER_AGENT]
            ELSE ANTIGRAVITY_HEADERS
        h1 == Spread([h \in {"Authorization", "Content-Type"} |->
                        IF h = "Authorization" THEN <<"Bearer ", token>>
                        ELSE "application/json"],
                     baseHeaders)
        h2 == IF getModelFamily(model) = "claude" /\ isThinkingModel(model)
              THEN Spread(h1, [h \in {"anthropic-beta"} |->
                                   "interleaved-thinking-2025-05-14"])
              ELSE h1
    IN  IF accept # "application/json"
        THEN Spread(h2, [h \in {"Accept"} |-> accept])
        ELSE h2

\* The value of header name in a headers object, NoHeader when it is absent
HeaderOf(hs, name) == IF name \in DOMAIN hs THEN hs[name] ELSE NoHeader

\* The headers of one upstream call are built for an account with or
\* without a device fingerprint
BuildHeaders ==
    \E token \in Tokens, model \in HeaderModels, accept \in Accepts,
       authType \in AuthTypes, fingerprint \in DeviceFingerprints \cup {NoFingerprint} :
        /\ headers' = [token |-> token, model |-> model, accept |-> accept,
                       authType |-> authType, fingerprint |-> fingerprint,
                       result |-> buildHeaders(token, model, accept, authType,
                                               fingerprint)]
        /\ UNCHANGED <<poolVars, coreVars, auxVars, oauth, web, ui, disc>>

InitHeaders == Init /\ accounts = <<>>
NextHeaders == BuildHeaders
SpecHeaders == InitHeaders /\ [][NextHeaders]_vars

\* ------------------------------------------------------- webui OAuth routes
\* pendingOAuthStates.delete(state)
redeemState_Keeps(pending, state) == pending

redeemState(pending, state) == [pending EXCEPT ![state] = Null]

\* The clean-up loop of GET /api/auth/url: drops the states older than the
\* maximum age
pruneStates(pending, t) ==
    [s \in States |->
        IF pending[s] # Null /\ t - pending[s] > STATE_MAX_AGE_MS
        THEN Null ELSE pending[s]]

\* GET /api/auth/url at time t, issuing state
authUrl(o, state, t) ==
    [o EXCEPT !.pending = pruneStates([o.pending EXCEPT ![state] = t], t),
              !.issuedAt[state] = t]

\* GET /oauth/callback up to the await of completeOAuthFlow; query tells
\* whether the request carries an error, lacks its code, or is well-formed
oauthCallback(o, state, query, t) ==
    LET age == IF state \in States /\ o.issuedAt[state] > 0
               THEN t - o.issuedAt[state] ELSE 0
        reject == [o EXCEPT !.callbacks = @ + 1,
                            !.last = [state |-> state, status |-> 400, age |-> age]]
    IN  IF query # "ok" THEN reject
        ELSE IF state \notin States \/ o.pending[state] = Null THEN reject
        ELSE [o EXCEPT !.callbacks = @ + 1,
                       !.pending = redeemState(o.pending, state),
                       !.exchanging[state] = @ + 1,
                       !.redeemed[state] = @ + 1,
                       !.last = [state |-> state, status |-> 0, age |-> age]]

\* The rest of the callback once completeOAuthFlow has settled
exchangeDone(o, state, ok) ==
    [o EXCEPT !.exchanging[state] = @ - 1,
              !.added[state] = IF ok THEN @ + 1 ELSE @,
              !.last = [state |-> state, status |-> IF ok THEN 200 ELSE 500,
                        age |-> 0]]

OAuthTick ==
    /\ now < MaxOAuthNow
    /\ now' = now + 1
    /\ UNCHANGED <<accounts, tokenCache, projectCache, calls, otherVars>>

AuthUrl ==
    \E state \in States :
        /\ oauth.issuedAt[state] = 0
        /\ \A s \in States : s < state => oauth.issuedAt[s] > 0
        /\ oauth' = authUrl(oauth, state, now)
        /\ UNCHANGED <<poolVars, coreVars, auxVars, headers, web, ui, disc>>

OAuthCallback ==
    \E state \in States \cup {NoState}, query \in {"ok", "error", "nocode"} :
        /\ oauth.callbacks < MaxCallbacks
        /\ oauth' = oauthCallback(oauth, state, query, now)
        /\ UNCHANGED <<poolVars, coreVars, auxVars, headers, web, ui, disc>>

OAuthExchangeDone ==
    \E state \in States, ok \in BOOLEAN :
        /\ oauth.exchanging[state] > 0
        /\ oauth' = exchangeDone(oauth, state, ok)
        /\ UNCHANGED <<poolVars, coreVars, auxVars, headers, web, ui, disc>>

InitOAuth == Init /\ accounts = <<>>
NextOAuth ==
    \/ OAuthTick
    \/ AuthUrl
    \/ OAuthCallback
    \/ OAuthExchangeDone

SpecOAuth == InitOAuth /\ [][NextOAuth]_vars

\* ------------------------------------------------ webui configuration routes
\* createAuthMiddleware: "next" when the request goes on to its route, 401
\* when it is turned away; the exception list is matched on the path alone
authMiddleware(password, path, provided) ==
    IF password = "" THEN "next"
    ELSE LET isApiRoute == path[1] = "api"
             isException == path = <<"api", "auth", "url">> \/ path = <<"api", "config">>
             isProtected == (isApiRoute /\ ~isException)
                            \/ path = <<"account-limits">> \/ path = <<"health">>
         IN  IF isProtected /\ provided # password THEN "401" ELSE "next"

\* saveConfig(updates): the file takes the updates when the write succeeds
saveConfig(saved, field, value, ok) ==
    IF ok THEN [saved EXCEPT ![field] = value] ELSE saved

\* POST /api/config with body { debug }, debug being a boolean or missing
postConfig(w, debug, ok) ==
    IF debug \notin Flags THEN [w EXCEPT !.last.status = 400]
    ELSE [w EXCEPT !.saved = saveConfig(w.saved, "debug", debug, ok),
                   !.last.status = IF ok THEN 200 ELSE 500]

\* POST /api/models/config with body { modelId, config: { hidden } }:
\* currentMapping is config.modelMapping itself when there is one, so the
\* assignment to currentMapping[modelId] is already made in memory when
\* saveConfig runs
postModelsConfig(w, modelId, hidden, ok) ==
    IF modelId = "" THEN [w EXCEPT !.last.status = 400]
    ELSE LET aliased == w.modelMapping # Undefined
             currentMapping == IF aliased THEN w.modelMapping.of
                               ELSE [m \in ModelIds |-> "unset"]
             updated == [defined |-> TRUE,
                         of |-> [currentMapping EXCEPT ![modelId] = hidden]]
         IN  [w EXCEPT !.modelMapping = IF ok \/ aliased THEN updated ELSE @,
                       !.saved = saveConfig(w.saved, "modelMapping", updated, ok),
                       !.last.status = IF ok THEN 200 ELSE 500]

\* The routes of the server that a request can name
Routes ==
    { <<"GET", <<"api", "config">>>>, <<"POST", <<"api", "config">>>>,
      <<"POST", <<"api", "models", "config">>>>, <<"GET", <<"health">>>> }

\* One request passes the middleware and, unless turned away, its route
webRequest(w, route, provided, modelId, flag, ok) ==
    LET seen == [w EXCEPT !.served = 1 - @,
                          !.last = [method |-> route[1], path |-> route[2],
                                    provided |-> provided, status |-> 200]]
    IN  IF authMiddleware(w.password, route[2], provided) = "401"
        THEN [seen EXCEPT !.last.status = 401]
        ELSE CASE route = <<"POST", <<"api", "config">>>> -> postConfig(seen, flag, ok)
               [] route = <<"POST", <<"api", "models", "config">>>> ->
                      postModelsConfig(seen, modelId, flag, ok)
               [] OTHER -> seen

WebRequest ==
    \E route \in Routes, provided \in {"pw", "guess", ""},
       modelId \in ModelIds \cup {""}, flag \in Flags \cup {"undefined"},
       ok \in BOOLEAN :
        /\ web' = webRequest(web, route, provided, modelId, flag, ok)
        /\ UNCHANGED <<poolVars, coreVars, auxVars, headers, oauth, ui, disc>>

InitWeb == Init /\ accounts = <<>>
NextWeb == WebRequest
SpecWeb == InitWeb /\ [][NextWeb]_vars

\* ------------------------------------------------- console account toggle
\* toggleAccount(id, enabled) up to the await of the request: the optimistic
\* update of the account object found in the store
toggleIssue(u, enabled) ==
    [u EXCEPT !.shown = enabled,
              !.issued = @ + 1,
              !.inflight = @ \cup {[n |-> u.issued + 1, enabled |-> enabled,
                                    prev |-> u.shown, gen |-> u.gen]}]

\* toggleAccount once the request has settled, up to the await of fetchData:
\* on an error response or an exception the account object captured at the
\* start is set to !enabled; that object is on display only while the
\* store's array has not been replaced
toggleSettle(u, t, outcome) ==
    LET failed == outcome # "ok"
        onDisplay == t.gen = u.gen
    IN  [u EXCEPT !.server = IF outcome = "ok" THEN t.enabled ELSE @,
                  !.shown = IF failed /\ onDisplay THEN ~t.enabled ELSE @,
                  !.inflight = @ \ {t},
                  !.fetching = @ + 1,
                  !.settled = @ + 1,
                  !.last = [failed |-> failed, prev |-> t.prev, enabled |-> t.enabled]]

\* fetchData(): the accounts array is replaced by the server's when the
\* fetch succeeds, and kept when it fails
fetchDone(u, ok) ==
    [u EXCEPT !.fetching = @ - 1,
              !.shown = IF ok THEN u.server ELSE @,
              !.gen = IF ok THEN @ + 1 ELSE @]

ToggleAccount ==
    \E enabled \in BOOLEAN :
        /\ ui.issued < MaxToggles
        /\ ui' = toggleIssue(ui, enabled)
        /\ UNCHANGED <<poolVars, coreVars, auxVars, headers, oauth, web, disc>>

ToggleSettled ==
    \E t \in ui.inflight, outcome \in {"ok", "error", "exception"} :
        /\ ui' = toggleSettle(ui, t, outcome)
        /\ UNCHANGED <<poolVars, coreVars, auxVars, headers, oauth, web, disc>>

FetchData ==
    \E ok \in BOOLEAN :
        /\ ui.fetching > 0
        /\ ui' = fetchDone(ui, ok)
        /\ UNCHANGED <<poolVars, coreVars, auxVars, headers, oauth, web, disc>>

InitUi == Init /\ accounts = <<>>
NextUi ==
    \/ ToggleAccount
    \/ ToggleSettled
    \/ FetchData

SpecUi == InitUi /\ [][NextUi]_vars

\* ------------------------------------------- interleaved project lookups
\* getProjectForAccount up to its await: a cache hit or a fixed project id
\* returns at once, otherwise discoverProject is called and the lookup is
\* suspended with the cache untouched
ProjectLookup ==
    \E i \in 1..Len(accounts) :
        LET email == accounts[i].email
            r == getProjectForAccount(accounts, projectCache, i, "")
        IN  /\ disc.lookups < MaxLookups
            /\ IF r.discovery
               THEN /\ disc' = [disc EXCEPT !.lookups = @ + 1,
                                            !.waiting[email] = @ + 1,
                                            !.issued[email] = @ + 1]
                    /\ UNCHANGED projectCache
               ELSE /\ disc' = [disc EXCEPT !.lookups = @ + 1]
                    /\ projectCache' = r.projectCache
            /\ UNCHANGED <<accounts, now, tokenCache, calls, coreVars, auxVars,
                           headers, oauth, web, ui>>

\* discoverProject resolves for a suspended lookup, which stores the project
DiscoveryDone ==
    \E email \in Emails, discovered \in DiscoveredProjects :
        /\ disc.waiting[email] > 0
        /\ disc' = [disc EXCEPT !.waiting[email] = @ - 1]
        /\ projectCache' = [projectCache EXCEPT ![email] = discovered]
        /\ UNCHANGED <<accounts, now, tokenCache, calls, coreVars, auxVars,
                       headers, oauth, web, ui>>

\* An explicit reset: POST /api/accounts/:email/refresh clears both caches
ResetProject ==
    \E email \in Emails :
        /\ tokenCache' = clearTokenCache(tokenCache, email)
        /\ projectCache' = clearProjectCache(projectCache, email)
        /\ disc' = [disc EXCEPT !.issued[email] = 0]
        /\ UNCHANGED <<accounts, now, calls, coreVars, auxVars, headers, oauth, web, ui>>

InitDisc == Init /\ Len(accounts) = 2
NextDisc ==
    \/ ProjectLookup
    \/ DiscoveryDone
    \/ ResetProject

SpecDisc == InitDisc /\ [][NextDisc]_vars

\* ----------------------------------------------------- discoverProject
\* tierId.toLowerCase().includes('free')
IsFreeTier(tierId) == tierId = "free-tier"

\* The part of discoverProject after its loop. data is the last body the
\* loop kept in loadCodeAssistData ("none" before any, "null" for a null
\* body); onboarded is what onboardUser returns if it is called.
AfterEndpoints(got, data, hasData, contacted, onboarded) ==
    IF got /\ hasData
    THEN LET tier == IF data.paidTier # "" THEN data.paidTier
                     ELSE IF data.currentTier # "" THEN data.currentTier
                     ELSE ""
             tierId == IF tier # "" THEN tier ELSE "free-tier"
             call == [called |-> TRUE, tierId |-> tierId,
                      project |-> IF IsFreeTier(tierId) THEN ""
                                  ELSE DEFAULT_PROJECT_ID]
         IN  [project |-> IF onboarded # "" THEN onboarded ELSE DEFAULT_PROJECT_ID,
              contacted |-> contacted, onboarding |-> call]
    ELSE [project |-> DEFAULT_PROJECT_ID, contacted |-> contacted,
          onboarding |-> NoOnboarding]

\* The loop over LOAD_CODE_ASSIST_ENDPOINTS from endpoint k on
RECURSIVE EndpointLoop(_, _, _, _, _, _, _)
EndpointLoop(responses, k, got, data, hasData, contacted, onboarded) ==
    IF k > Len(responses)
    THEN AfterEndpoints(got, data, hasData, contacted, onboarded)
    ELSE LET r == responses[k]
             c == Append(contacted, k)
         IN  IF r.fetch = "throws" \/ ~r.ok \/ r.json = "throws"
             THEN EndpointLoop(responses, k + 1, got, data, hasData, c, onboarded)
             ELSE IF r.json = "null"
             THEN EndpointLoop(responses, k + 1, TRUE, r, FALSE, c, onboarded)
             ELSE IF r.cloudaicompanionProject.type = "string"
             THEN [project |-> r.cloudaicompanionProject.id, contacted |-> c,
                   onboarding |-> NoOnboarding]
             ELSE IF r.cloudaicompanionProject.type = "object"
                     /\ r.cloudaicompanionProject.id # ""
             THEN [project |-> r.cloudaicompanionProject.id, contacted |-> c,
                   onboarding |-> NoOnboarding]
             ELSE AfterEndpoints(TRUE, r, TRUE, c, onboarded)

\* discoverProject(token) when endpoint k answers responses[k]; the result
\* carries the endpoints contacted, in the order of the fetches
discoverProject(responses, onboarded) ==
    EndpointLoop(responses, 1, FALSE, responses[1], FALSE, <<>>, onboarded)

DiscoverProjectStep(responses, onboarded) ==
    LET r == discoverProject(responses, onboarded)
    IN  /\ discovery' = [called |-> TRUE, responses |-> responses,
                         onboarded |-> onboarded, project |-> r.project,
                         contacted |-> r.contacted, onboarding |-> r.onboarding]
        /\ UNCHANGED <<poolVars, coreVars, webVars, logs>>

DiscoverProject ==
    \E responses \in [1..NumEndpoints -> Responses], onboarded \in OnboardOutcomes :
        DiscoverProjectStep(responses, onboarded)

InitDiscover == Init /\ accounts = <<>>

NextDiscover == DiscoverProject

\* discoverProject called with every combination of endpoint answers
SpecDiscover == InitDiscover /\ [][NextDiscover]_vars

\* ------------------------------------------------------ console log viewer
\* logs.sources[k] is the readyState of the k-th EventSource the viewer
\* created; logs.eventSource is the index of this.eventSource, 0 for null.
ReadyStates == {"connecting", "open", "closed"}

\* startLogStream creating a new EventSource without closing the previous one
startLogStream_KeepsPrevious(v) ==
    [v EXCEPT !.sources = Append(v.sources, "connecting"),
              !.eventSource = Len(v.sources) + 1]

\* startLogStream()
startLogStream(v) ==
    LET closed == IF v.eventSource # 0
                  THEN [v.sources EXCEPT ![v.eventSource] = "closed"]
                  ELSE v.sources
    IN  [v EXCEPT !.sources = Append(closed, "connecting"),
                  !.eventSource = Len(closed) + 1]

\* eventSource.onerror: schedule a restart in 3000 ms
onerror(v) == [v EXCEPT !.timers = @ + 1]

\* eventSource.onmessage: push the line and cut the buffer to the limit
onmessage(v) ==
    [v EXCEPT !.lines = IF @ + 1 > LogLimit THEN LogLimit ELSE @ + 1]

\* init(): the component is mounted
LogsInit ==
    /\ logs.sources = <<>>
    /\ logs' = startLogStream(logs)
    /\ UNCHANGED <<poolVars, coreVars, webVars, discovery>>

\* The connection of EventSource k is established
LogStreamOpened ==
    \E k \in 1..Len(logs.sources) :
        /\ logs.sources[k] = "connecting"
        /\ logs' = [logs EXCEPT !.sources[k] = "open"]
        /\ UNCHANGED <<poolVars, coreVars, webVars, discovery>>

\* A line arrives on EventSource k
LogStreamMessage ==
    \E k \in 1..Len(logs.sources) :
        /\ logs.sources[k] = "open"
        /\ logs' = onmessage(logs)
        /\ UNCHANGED <<poolVars, coreVars, webVars, discovery>>

\* EventSource k fails: the browser either retries the connection by itself
\* or gives up and closes the source; in both cases the error event fires
LogStreamError ==
    \E k \in 1..Len(logs.sources), after \in {"connecting", "closed"} :
        /\ logs.sources[k] # "closed"
        /\ logs.timers < MaxTimers
        /\ logs' = onerror([logs EXCEPT !.sources[k] = after])
        /\ UNCHANGED <<poolVars, coreVars, webVars, discovery>>

\* A reconnect timer fires: setTimeout(() => this.startLogStream(), 3000)
LogReconnectTimer ==
    /\ logs.timers > 0
    /\ Len(logs.sources) < MaxSources
    /\ logs' = startLogStream([logs EXCEPT !.timers = @ - 1])
    /\ UNCHANGED <<poolVars, coreVars, webVars, discovery>>

InitLogs == Init /\ accounts = <<>>

NextLogs ==
    \/ LogsInit
    \/ LogStreamOpened
    \/ LogStreamMessage
    \/ LogStreamError
    \/ LogReconnectTimer

\* One log viewer, its event sources and its reconnect timers
SpecLogs == InitLogs /\ [][NextLogs]_vars

\* ================================================================ claims
Pool == 1..Len(accounts)
Min(S) == CHOOSE x \in S : \A y \in S : x <= y

\* acc carries an unexpired rate limit for model m
ModelLimitedAt(acc, m) ==
    /\ acc.modelRateLimits[m].isRateLimited
    /\ acc.modelRateLimits[m].resetTime > now

\* The positive waits resetTime - now over the global reset times of the pool
GlobalWaits ==
    {w \in {accounts[i].rateLimitResetTime - now :
                i \in {j \in Pool : accounts[j].rateLimitResetTime # Null}} : w > 0}

\* The positive waits over the global and the per-model reset times of the pool
AllWaits ==
    GlobalWaits \cup
    {w \in {accounts[i].modelRateLimits[m].resetTime - now :
                <<i, m>> \in {p \in Pool \X Models :
                    accounts[p[1]].modelRateLimits[p[2]].resetTime # Null}} : w > 0}

\* C1: if all accounts are (globally) rate-limited, getMinWaitTimeMs returns
\* a positive value: the smallest positive resetTime - now across the
\* accounts, and the default cooldown when there is no such reset time.
C1_ExhaustionWait ==
    (\A i \in Pool : accounts[i].isRateLimited) =>
        /\ getMinWaitTimeMs(accounts, now) > 0
        /\ getMinWaitTimeMs(accounts, now) =
              IF GlobalWaits = {} THEN DEFAULT_COOLDOWN_MS ELSE Min(GlobalWaits)

\* Both accounts rate-limited with their reset times ahead, the second one
\* resetting sooner.
C1_Witness ==
    /\ Len(accounts) = 2
    /\ \A i \in Pool : accounts[i].isRateLimited
    /\ accounts[1].rateLimitResetTime - now = 2
    /\ accounts[2].rateLimitResetTime - now = 1
    /\ getMinWaitTimeMs(accounts, now) = 1

\* C2: whenever every account is rate-limited for a target model, globally
\* or only by a per-model limit (so none is available for it), the minimum
\* wait the pool reports is strictly positive: the smallest positive
\* resetTime - now over the global and per-model reset times, or the default
\* cooldown if there is none.
C2_ModelExhaustionWait ==
    \A m \in Models :
        ( /\ \A i \in Pool : accounts[i].isRateLimited
                                \/ ModelLimitedAt(accounts[i], m)
          /\ Len(getAvailableAccounts(accounts, m, now)) = 0 ) =>
            /\ getMinWaitTimeMs(accounts, now) > 0
            /\ getMinWaitTimeMs(accounts, now) =
                  IF AllWaits = {} THEN DEFAULT_COOLDOWN_MS ELSE Min(AllWaits)

DueGlobal(acc) ==
    acc.isRateLimited /\ acc.rateLimitResetTime # Null /\ acc.rateLimitResetTime <= now
DueEntry(acc, m) ==
    /\ acc.modelRateLimits[m].isRateLimited
    /\ acc.modelRateLimits[m].resetTime # Null
    /\ acc.modelRateLimits[m].resetTime <= now
InAvailable(accs, email, m) ==
    \E k \in 1..Len(getAvailableAccounts(accs, m, now)) :
        getAvailableAccounts(accs, m, now)[k].email = email

\* C4 (as claimed): an entry, global or per-model, whose reset time R is at or
\* before now is no longer rate-limited after clearExpired, and the account
\* is then among getAvailableAccounts (asked without a model for a global
\* entry, for the entry's model otherwise) if it is not invalid.
C4_ClearedThenAvailable ==
    [][ClearExpired =>
        \A i \in Pool :
            /\ DueGlobal(accounts[i]) =>
                /\ ~accounts'[i].isRateLimited
                /\ ~accounts'[i].isInvalid =>
                        InAvailable(accounts', accounts[i].email, NoModel)
            /\ \A m \in Models : DueEntry(accounts[i], m) =>
                /\ ~accounts'[i].modelRateLimits[m].isRateLimited
                /\ ~accounts'[i].isInvalid =>
                        InAvailable(accounts', accounts[i].email, m)]_vars

\* C4 (amended): such an entry is no longer rate-limited after clearExpired,
\* and the account is then among getAvailableAccounts if it is not invalid
\* and not still rate-limited in the other scope: for a per-model entry the
\* account must not be globally rate-limited, and a query for a model must
\* not meet an unexpired limit for that model.
C4_ClearedThenAvailableUnlessOtherLimit ==
    [][ClearExpired =>
        \A i \in Pool :
            /\ DueGlobal(accounts[i]) =>
                /\ ~accounts'[i].isRateLimited
                /\ ~accounts'[i].isInvalid =>
                    /\ InAvailable(accounts', accounts[i].email, NoModel)
                    /\ \A m \in Models : ~ModelLimitedAt(accounts'[i], m) =>
                            InAvailable(accounts', accounts[i].email, m)
            /\ \A m \in Models : DueEntry(accounts[i], m) =>
                /\ ~accounts'[i].modelRateLimits[m].isRateLimited
                /\ (~accounts'[i].isInvalid /\ ~accounts'[i].isRateLimited) =>
                        InAvailable(accounts', accounts[i].email, m)]_vars

\* A global limit and a per-model limit of one valid account both swept at
\* or after their reset times, the account available again for that model.
C4_Witness ==
    \E i \in Pool : \E m \in Models :
        /\ now >= 2
        /\ ~accounts[i].isInvalid
        /\ ~accounts[i].isRateLimited
        /\ accounts[i].modelRateLimits[m].present
        /\ ~accounts[i].modelRateLimits[m].isRateLimited
        /\ accounts[i].modelRateLimits[m].resetTime = Null
        /\ InAvailable(accounts, accounts[i].email, m)

\* The reset time markRateLimited wrote for its scope
ScopeResetTime(acc, m) ==
    IF m = NoModel THEN acc.rateLimitResetTime ELSE acc.modelRateLimits[m].resetTime
ScopeLimited(acc, m) ==
    IF m = NoModel THEN acc.isRateLimited ELSE acc.modelRateLimits[m].isRateLimited

\* C5: markRateLimited with a modelId changes only modelRateLimits[modelId]
\* of the named account, without one only that account's global
\* isRateLimited / rateLimitResetTime; every other account, every other model
\* entry, the other scope and the invalid flag stay as they were. Stated of
\* the call made in any reachable state of the pool, with any arguments.
C5_MarkRateLimitedFrame ==
    \A email \in EmailInputs, resetMs \in ResetMsInputs,
       cd \in CooldownSettings, m \in ModelInputs :
        LET after == markRateLimited(accounts, email, resetMs, cd, m, now).accounts
        IN  /\ Len(after) = Len(accounts)
            /\ \A i \in Pool :
                IF accounts[i].email # email THEN after[i] = accounts[i]
                ELSE /\ ScopeLimited(after[i], m)
                     /\ IF m = NoModel
                        THEN after[i] =
                               [accounts[i] EXCEPT
                                  !.isRateLimited = TRUE,
                                  !.rateLimitResetTime = after[i].rateLimitResetTime]
                        ELSE /\ after[i].isRateLimited = accounts[i].isRateLimited
                             /\ after[i].rateLimitResetTime = accounts[i].rateLimitResetTime
                             /\ after[i].isInvalid = accounts[i].isInvalid
                             /\ after[i].invalidReason = accounts[i].invalidReason
                             /\ after[i].enabled = accounts[i].enabled
                             /\ after[i].email = accounts[i].email
                             /\ after[i].source = accounts[i].source
                             /\ after[i].projectId = accounts[i].projectId
                             /\ \A o \in Models \ {m} :
                                    after[i].modelRateLimits[o]
                                        = accounts[i].modelRateLimits[o]

\* One account limited for m1 only, the other one limited globally only.
C5_Witness ==
    /\ Len(accounts) = 2
    /\ \E i \in Pool : \E j \in Pool \ {i} :
        /\ accounts[i].modelRateLimits["m1"].isRateLimited
        /\ ~accounts[i].modelRateLimits["m2"].present
        /\ ~accounts[i].isRateLimited
        /\ accounts[j].isRateLimited
        /\ \A m \in Models : ~accounts[j].modelRateLimits[m].present

\* C6 (as claimed): markRateLimited sets the reset time of its scope to
\* now + resetMs when a reset duration is supplied, to now + the configured
\* cooldown when none is supplied and one is configured, and to now + the
\* built-in default otherwise.
C6_ResetTimeFromInputs ==
    \A i \in Pool, resetMs \in ResetMsInputs, cd \in CooldownSettings, m \in ModelInputs :
        ScopeResetTime(
            markRateLimited(accounts, accounts[i].email, resetMs, cd, m, now).accounts[i], m)
        = now + (IF resetMs # Null THEN resetMs
                 ELSE IF cd # Null THEN cd
                 ELSE DEFAULT_COOLDOWN_MS)

\* C6 (amended): markRateLimited sets the reset time of its scope to
\* now + resetMs when a non-zero reset duration is supplied; a duration of 0
\* counts as not supplied. Then the configured cooldown is used if it is set
\* and not 0, and the built-in default otherwise. The new reset time
\* replaces any earlier one for that scope.
C6_ResetTimeFromNonZeroInputs ==
    \A i \in Pool, resetMs \in ResetMsInputs, cd \in CooldownSettings, m \in ModelInputs :
        ScopeResetTime(
            markRateLimited(accounts, accounts[i].email, resetMs, cd, m, now).accounts[i], m)
        = now + (IF resetMs \notin {Null, 0} THEN resetMs
                 ELSE IF cd \notin {Null, 0} THEN cd
                 ELSE DEFAULT_COOLDOWN_MS)

\* After the clock has advanced, a reset time one unit ahead (not the default
\* cooldown) has replaced the earlier reset time of a global limit.
C6_Witness ==
    \E i \in Pool :
        /\ now = 2
        /\ accounts[i].isRateLimited
        /\ accounts[i].rateLimitResetTime = now + 1
        /\ calls >= 2

\* The rate-limited entries of the pool whose reset time is at or before now
DueEntries ==
    {<<i, NoModel>> : i \in {j \in Pool : DueGlobal(accounts[j])}}
    \cup {p \in Pool \X Models : DueEntry(accounts[p[1]], p[2])}

\* C7: clearExpired clears exactly the rate-limited entries, global and
\* per-model, whose reset time is at or before now, leaves every entry whose
\* reset time is still ahead rate-limited (and every other field as it was),
\* and returns the number of entries it cleared.
C7_ClearExpiredExact ==
    [][ClearExpired =>
        /\ clearExpiredLimits(accounts, now).ret = Cardinality(DueEntries)
        /\ Len(accounts') = Len(accounts)
        /\ \A i \in Pool : \A m \in ModelInputs :
            IF <<i, m>> \in DueEntries
            THEN ~ScopeLimited(accounts'[i], m) /\ ScopeResetTime(accounts'[i], m) = Null
            ELSE /\ ScopeLimited(accounts'[i], m) = ScopeLimited(accounts[i], m)
                 /\ ScopeResetTime(accounts'[i], m) = ScopeResetTime(accounts[i], m)]_vars

\* A swept per-model entry next to a limit that is still in force, with
\* nothing left to sweep.
C7_Witness ==
    /\ DueEntries = {}
    /\ \E i \in Pool : \E m \in Models :
        /\ accounts[i].modelRateLimits[m].present
        /\ ~accounts[i].modelRateLimits[m].isRateLimited
    /\ \E i \in Pool : \E m \in ModelInputs :
        ScopeLimited(accounts[i], m) /\ ScopeResetTime(accounts[i], m) > now

\* C8: after resetAll no account is rate-limited, globally or for any model,
\* and nothing else has changed: the same accounts in the same order, each
\* with its invalid and enabled state (and every other field) as before.
C8_ResetAllFrame ==
    [][ResetAll =>
        /\ Len(accounts') = Len(accounts)
        /\ \A i \in Pool :
            /\ \A m \in ModelInputs :
                ~ScopeLimited(accounts'[i], m) /\ ScopeResetTime(accounts'[i], m) = Null
            /\ \A m \in Models : accounts'[i].modelRateLimits[m].present
                                    = accounts[i].modelRateLimits[m].present
            /\ accounts'[i].email = accounts[i].email
            /\ accounts'[i].isInvalid = accounts[i].isInvalid
            /\ accounts'[i].invalidReason = accounts[i].invalidReason
            /\ accounts'[i].enabled = accounts[i].enabled
            /\ accounts'[i].source = accounts[i].source
            /\ accounts'[i].projectId = accounts[i].projectId
        /\ UNCHANGED <<now, tokenCache, projectCache>>]_vars

\* An invalid, disabled account whose per-model limit has been reset before
\* its reset time could have passed.
C8_Witness ==
    \E i \in Pool : \E m \in Models :
        /\ now = 1
        /\ accounts[i].isInvalid
        /\ ~accounts[i].enabled
        /\ ~accounts[i].isRateLimited
        /\ accounts[i].modelRateLimits[m].present
        /\ ~accounts[i].modelRateLimits[m].isRateLimited

\* C9: an account whose enabled flag is false is never among the accounts
\* getAvailableAccounts offers for selection, with or without a model.
C9_DisabledNeverAvailable ==
    \A m \in ModelInputs :
        \A k \in 1..Len(getAvailableAccounts(accounts, m, now)) :
            getAvailableAccounts(accounts, m, now)[k].enabled

\* C10: no step of markRateLimited, markInvalid, clearExpired or resetAll
\* (nor any other step of the pool) changes the account emails of the pool.
C10_AccountsNeverDestroyed ==
    [][ /\ Len(accounts') = Len(accounts)
        /\ \A i \in Pool : accounts'[i].email = accounts[i].email ]_vars

\* Both accounts still in the pool, one marked invalid, the other one
\* rate-limited and swept.
C10_Witness ==
    /\ Len(accounts) = 2
    /\ \E i \in Pool : \E j \in Pool \ {i} : \E m \in ModelInputs :
        /\ accounts[i].isInvalid
        /\ now >= 2
        /\ IF m = NoModel THEN FALSE
           ELSE accounts[j].modelRateLimits[m].present
                /\ ~accounts[j].modelRateLimits[m].isRateLimited

\* ------------------------------------------------------------------ C17
\* The cache entry of an email is younger than the TTL
Young(email) ==
    /\ tokenCache[email].present
    /\ now - tokenCache[email].extractedAt < TOKEN_REFRESH_INTERVAL_MS

\* C17: getTokenForAccount never returns a cached token whose age
\* (now - extractedAt) is at or beyond the TTL. While the entry is younger
\* than the TTL the call returns the cached token and leaves the cache alone;
\* on a miss or an expired entry a call that returns a token returns a fresh
\* one (for an OAuth account the one issued now) and caches it with
\* extractedAt = now.
C17_TokenYoungerThanTtl ==
    \A i \in Pool, refresh \in RefreshOutcomes :
        LET email == accounts[i].email
            r == getTokenForAccount(accounts, tokenCache, i, refresh, now)
        IN  IF Young(email)
            THEN /\ r.result = "ok"
                 /\ r.token = tokenCache[email].token
                 /\ r.tokenCache = tokenCache
            ELSE r.result = "ok" =>
                    /\ accounts[i].source = "oauth" => r.token = now
                    /\ r.tokenCache[email] =
                          [present |-> TRUE, token |-> r.token, extractedAt |-> now]

\* An OAuth account whose cached token has reached the TTL, so that the
\* next call refreshes it, next to an account whose entry is still young
C17_Witness ==
    \E i \in Pool, j \in Pool :
        /\ accounts[i].source = "oauth"
        /\ tokenCache[accounts[i].email].present
        /\ now - tokenCache[accounts[i].email].extractedAt >= TOKEN_REFRESH_INTERVAL_MS
        /\ getTokenForAccount(accounts, tokenCache, i, "ok", now).token
              # tokenCache[accounts[i].email].token
        /\ Young(accounts[j].email)

\* ------------------------------------------------------------------ C18
\* C18: when the token refresh of an account is rejected and the account is
\* marked invalid, the token-cache entry of its email is removed: no
\* previously cached token for that email remains in the cache.
C18_InvalidationRemovesToken ==
    [][ \A i \in Pool :
           ( /\ accounts[i].source = "oauth"
             /\ ~Young(accounts[i].email)
             /\ GetTokenForAccountStep(i, "rejected")
             /\ accounts'[i].isInvalid )
           => ~tokenCache'[accounts[i].email].present ]_vars

\* ------------------------------------------------------------------ C19
\* C19: a forced refresh of one account (POST /api/accounts/:email/refresh)
\* removes the token-cache entry and the project-cache entry of that email
\* and leaves the entries of every other email, and the accounts, unchanged.
C19_ForcedRefreshFrame ==
    [][ \A email \in Emails :
           RefreshAccountStep(email) =>
              /\ ~tokenCache'[email].present
              /\ projectCache'[email] = ""
              /\ \A other \in Emails \ {email} :
                    /\ tokenCache'[other] = tokenCache[other]
                    /\ projectCache'[other] = projectCache[other]
              /\ accounts' = accounts ]_vars

\* One account's entries are gone while the other account still has both
C19_Witness ==
    /\ Len(accounts) = 2
    /\ calls = MaxCalls
    /\ \A i \in Pool : ~accounts[i].isInvalid /\ ~accounts[i].isRateLimited
    /\ ~tokenCache["a@x"].present /\ projectCache["a@x"] = ""
    /\ tokenCache["b@x"].present /\ projectCache["b@x"] # ""

\* ------------------------------------------------------------------ C20
\* What a call of getProjectForAccount for account i would return, over
\* everything discovery could answer, and whether it would run discovery
ProjectAnswers(accs, cache, i) ==
    {getProjectForAccount(accs, cache, i, d).project : d \in DiscoveredProjects}

RunsDiscovery(accs, cache, i) ==
    \E d \in DiscoveredProjects : getProjectForAccount(accs, cache, i, d).discovery

RECURSIVE CarriesCacheControl(_)
CarriesCacheControl(part) ==
    \/ "cache_control" \in DOMAIN part /\ part.cache_control
    \/ /\ "content" \in DOMAIN part
       /\ \E k \in 1..Len(part.content) : CarriesCacheControl(part.content[k])

RequestCarriesCacheControl(request) ==
    \/ \E k \in 1..Len(request.messages) :
          \E j \in 1..Len(request.messages[k].content) :
             CarriesCacheControl(request.messages[k].content[j])
    \/ \E k \in 1..Len(request.system) : CarriesCacheControl(request.system[k])

PayloadCarriesCacheControl(payload) ==
    \/ \E k \in 1..Len(payload.request.contents) :
          \E j \in 1..Len(payload.request.contents[k].parts) :
             CarriesCacheControl(payload.request.contents[k].parts[j])
    \/ \E k \in 1..Len(payload.request.systemInstruction.parts) :
          CarriesCacheControl(payload.request.systemInstruction.parts[k])

\* C11: for every request whose content blocks carry cache_control
\* annotations (on user text, on assistant text / thinking / tool_use blocks,
\* on tool_result blocks, at any nesting depth), the payload built for
\* upstream contains no cache_control key anywhere and the request completes
\* without an error event.
C11_NoCacheControlUpstream ==
    \A k \in 1..Len(built) :
        RequestCarriesCacheControl(built[k].request) =>
            /\ ~PayloadCarriesCacheControl(built[k].payload)
            /\ UpstreamOutcome(built[k].payload) # "error"

\* A payload was built from a request with cache_control nested in a
\* tool_result, on assistant blocks and on a system block
C11_Witness ==
    \E k \in 1..Len(built) :
        LET request == built[k].request
        IN  /\ request.system # <<>>
            /\ \E m \in 1..Len(request.messages) :
                  /\ request.messages[m].content[1].type = "tool_result"
                  /\ request.messages[m].content[1].content[1].cache_control
            /\ \E m \in 1..Len(request.messages) :
                  /\ request.messages[m].role = "assistant"
                  /\ request.messages[m].content[1].type = "thinking"
                  /\ request.messages[m].content[1].cache_control

\* ------------------------------------------------------------------ C15
\* The text of the first user message: the texts of its text blocks
FirstUserText(messages) ==
    LET users == SelectSeq(messages, LAMBDA m : m.role = "user")
        texts == IF users = <<>> THEN <<>>
                 ELSE SelectSeq(Head(users).content, LAMBDA b : b.type = "text")
    IN  [k \in 1..Len(texts) |-> texts[k].text]

\* The project and credential type of the accounts a second request may be
\* served by
OtherAccounts ==
    { [projectId |-> "proj-d", authType |-> "antigravity"],
      [projectId |-> "proj-b", authType |-> "gemini-cli"] }

\* C15: the session id attached to the upstream payload is a deterministic
\* function of the first user turn's text only: a request with the same
\* first user message text gets the same sessionId, whatever its later
\* turns, its project id, its auth type (the account selected) are.
C15_SessionIdFromFirstUserText ==
    \A k \in 1..Len(built) :
        \A messages \in Messages, account \in OtherAccounts :
            FirstUserText(messages) = FirstUserText(built[k].request.messages) =>
                buildCloudCodeRequest([built[k].request EXCEPT !.messages = messages],
                                      account.projectId, account.authType,
                                      "u1").request.sessionId
                  = built[k].payload.request.sessionId

\* A request of several turns whose first user message comes after an
\* assistant turn was built for the second project and credential type
C15_Witness ==
    \E k \in 1..Len(built) :
        /\ Len(built[k].request.messages) = MaxTurns
        /\ built[k].request.messages[1].role = "assistant"
        /\ built[k].request.messages[MaxTurns].role = "user"
        /\ FirstUserText(built[k].request.messages) = <<"yo">>
        /\ built[k].projectId = "proj-b"
        /\ built[k].authType = "gemini-cli"

\* ------------------------------------------------------------------ C12
\* How long acc is still rate-limited for model m, globally or for m
LimitedFor(acc, m) ==
    LET waits == {0}
            \cup (IF acc.isRateLimited /\ acc.rateLimitResetTime # Null
                  THEN {acc.rateLimitResetTime - now} ELSE {})
            \cup (IF ModelLimitedAt(acc, m)
                  THEN {acc.modelRateLimits[m].resetTime - now} ELSE {})
    IN  CHOOSE w \in waits : \A v \in waits : v <= w

\* enabled, valid and not rate-limited for m
EligibleFor(acc, m) ==
    acc.enabled /\ ~acc.isInvalid /\ ~acc.isRateLimited /\ ~ModelLimitedAt(acc, m)

\* C12: sticky selection. Given a session bound to an enabled, valid account
\* A: while A is rate-limited for less than the threshold, selection still
\* returns A and the session stays bound to A; once A's remaining rate limit
\* exceeds the threshold (and the pool holds another eligible account),
\* selection returns a different, eligible account and binds it to the
\* session.
C12_StickySelection ==
    [][ \A session \in Sessions, m \in Models :
          LET i == FindAccount(accounts, sticky[session])
              r == selectAccount(accounts, sticky, lastUsed, session, m, now, calls + 1)
          IN  ( /\ SelectAccountStep(session, m)
                /\ i # 0
                /\ accounts[i].enabled /\ ~accounts[i].isInvalid
                /\ LimitedFor(accounts[i], m) > 0 )
              => /\ LimitedFor(accounts[i], m) < StickyThresholdMs =>
                      /\ r.account = accounts[i].email
                      /\ sticky'[session] = accounts[i].email
                 /\ ( /\ LimitedFor(accounts[i], m) > StickyThresholdMs
                      /\ \E j \in Pool : EligibleFor(accounts[j], m) )
                    => /\ r.account # accounts[i].email
                       /\ \E j \in Pool : /\ accounts[j].email = r.account
                                          /\ EligibleFor(accounts[j], m)
                       /\ sticky'[session] = r.account ]_vars

\* The last call selected a@x for a session bound to it while a@x was
\* globally rate-limited for less than the threshold and b@x was eligible
C12_Witness ==
    /\ Len(accounts) = 2
    /\ \E session \in Sessions : sticky[session] = "a@x"
    /\ calls > 1 /\ lastUsed["a@x"] = calls
    /\ accounts[1].isRateLimited
    /\ accounts[1].rateLimitResetTime - now > 0
    /\ accounts[1].rateLimitResetTime - now < StickyThresholdMs
    /\ \A m \in Models : EligibleFor(accounts[2], m)

\* ------------------------------------------------------------------ C13
\* The positions of the content_block_start events emitted so far
BlockStarts ==
    {p \in 1..Len(stream.events) : stream.events[p].type = "content_block_start"}

\* C13: within one streamed response the block indices are strictly
\* increasing and never reused, and each open block is closed
\* (content_block_stop) before the next one is opened (content_block_start),
\* for every upstream sequence of thinking, tool_use and text parts.
C13_BlockIndices ==
    \A p \in BlockStarts, q \in BlockStarts :
        p < q =>
            /\ stream.events[p].index < stream.events[q].index
            /\ \E r \in (p + 1)..(q - 1) :
                  /\ stream.events[r].type = "content_block_stop"
                  /\ stream.events[r].index = stream.events[p].index

\* A stream of three blocks has been translated to its end
C13_Witness ==
    /\ stream.phase = "Done"
    /\ Cardinality(BlockStarts) = 3
    /\ stream.events[Len(stream.events)].type = "message_stop"

C16_BoundedRetriesPositiveWait ==
    /\ exec.attempt < MaxAttempts
    /\ exec.phase = "done" => exec.outcome \in {"response", "error"}
    /\ exec.phase = "waiting" =>
          /\ ~exec.waited
          /\ exec.waitMs > 0
          /\ exec.waitMs <= MaxWaitMs

\* ------------------------------------------------------------------ C21
\* C21: a token refresh that fails with a transient network error raises
\* AUTH_NETWORK_ERROR and never marks the account invalid; any other refresh
\* failure marks that account (and no other) invalid and raises
\* AUTH_INVALID.
C21_RefreshFailures ==
    \A i \in Pool :
        (accounts[i].source = "oauth" /\ ~Young(accounts[i].email)) =>
            LET network == getTokenForAccount(accounts, tokenCache, i, "network", now)
                rejected == getTokenForAccount(accounts, tokenCache, i, "rejected", now)
            IN  /\ network.result = "AUTH_NETWORK_ERROR"
                /\ network.accounts = accounts
                /\ rejected.result = "AUTH_INVALID"
                /\ rejected.accounts[i].isInvalid
                /\ \A j \in Pool \ {i} : rejected.accounts[j] = accounts[j]

\* An account was marked invalid by a rejected refresh, and a refresh of a
\* valid account with no young token is about to be attempted
C21_Witness ==
    \E i \in Pool :
        /\ accounts[i].isInvalid
        /\ accounts[i].invalidReason = "refresh rejected"
        /\ ~Young(accounts[i].email)
        /\ calls > 1

\* ------------------------------------------------------------------ C22
\* C22: the upstream headers built for a request made with an account that
\* has a device fingerprint carry that fingerprint's userAgent, apiClient,
\* deviceId, clientMetadata and quotaUser values.
C22_HeadersCarryFingerprint ==
    (headers # NoCall /\ headers.fingerprint # NoFingerprint) =>
        /\ HeaderOf(headers.result, "User-Agent") = headers.fingerprint.userAgent
        /\ HeaderOf(headers.result, "X-Goog-Api-Client") = headers.fingerprint.apiClient
        /\ HeaderOf(headers.result, "X-Client-Device-Id") = headers.fingerprint.deviceId
        /\ HeaderOf(headers.result, "Client-Metadata")
               = <<"json", headers.fingerprint.clientMetadata>>  \* JSON.stringify
        /\ HeaderOf(headers.result, "X-Goog-QuotaUser") = headers.fingerprint.quotaUser

\* ------------------------------------------------------------------ C23
\* The alias table: <<credential type, name, alias>>
C23_Aliases == { <<"gemini-cli", <<"gemini-3-flash">>, <<"gemini-3-flash-preview">>>> }

C23_WithoutPrefix(name) ==
    IF Len(name) > 1 /\ name[1] = "gc" THEN SubSeq(name, 2, Len(name)) ELSE name

C23_Expected(authType, name) ==
    LET stripped == C23_WithoutPrefix(name)
        found == {a \in C23_Aliases : a[1] = authType /\ a[2] = stripped}
    IN  IF found = {} THEN stripped ELSE (CHOOSE a \in found : TRUE)[3]

\* C23: the model name sent upstream is the request's model with a leading
\* 'gc/' prefix removed and then, if the account's credential type defines
\* an alias for that name, replaced by the alias; with no alias for that
\* credential type the stripped name is sent unchanged.
C23_UpstreamModelName ==
    \A k \in 1..Len(built) :
        built[k].payload.model = C23_Expected(built[k].authType, built[k].request.model)

\* A gc/-prefixed name whose stripped form has an alias for the credential
\* type was built
C23_Witness ==
    \E k \in 1..Len(built) :
        /\ built[k].request.model = <<"gc", "gemini-3-flash">>
        /\ built[k].authType = "gemini-cli"
        /\ built[k].payload.model = <<"gemini-3-flash-preview">>

\* ------------------------------------------------------------------ C24
\* The parts with text of a system instruction, in order, as bare text parts
RECURSIVE C24_OwnTexts(_)
C24_OwnTexts(parts) ==
    IF parts = <<>> THEN <<>>
    ELSE IF parts[1].text = "" THEN C24_OwnTexts(Tail(parts))
    ELSE <<[text |-> parts[1].text]>> \o C24_OwnTexts(Tail(parts))

\* The parts of the converted request's own system instruction
C24_OwnParts(request) ==
    LET own == convertAnthropicToGoogle(request).systemInstruction
    IN  IF own.present THEN own.parts ELSE <<>>

\* C24: in every built upstream payload, request.systemInstruction has role
\* 'user' and its parts are, in order, the injected identity instruction,
\* its [ignore]-wrapped copy, then the text parts of the request's own
\* system instruction in their original order, parts without text dropped.
C24_SystemInstruction ==
    \A k \in 1..Len(built) :
        LET si == built[k].payload.request.systemInstruction
        IN  /\ si.role = "user"
            /\ si.parts = << [text |-> ANTIGRAVITY_SYSTEM_INSTRUCTION],
                             [text |-> IgnoreWrapped] >>
                          \o C24_OwnTexts(C24_OwnParts(built[k].request))

\* A request whose system instruction has two text parts around a part
\* without text was built
C24_Witness ==
    \E k \in 1..Len(built) :
        /\ Len(C24_OwnParts(built[k].request)) = 3
        /\ C24_OwnParts(built[k].request)[2].text = ""
        /\ Len(built[k].payload.request.systemInstruction.parts) = 4

\* ------------------------------------------------------------------ C25
\* C25: each OAuth state can be redeemed at most once: once a callback has
\* passed the state check for a state, every later callback with that
\* state, sequential or arriving while the first code exchange is pending,
\* is answered 400 and adds no account, whether or not the first exchange
\* succeeds; no state ever adds more than one account.
C25_StateRedeemedOnce ==
    [][\A s \in States :
          /\ oauth'.added[s] <= 1
          /\ (/\ oauth.redeemed[s] >= 1
              /\ oauth'.callbacks = oauth.callbacks + 1
              /\ oauth'.last.state = s)
             => /\ oauth'.last.status = 400
                /\ oauth'.added = oauth.added
                /\ oauth'.exchanging = oauth.exchanging]_vars

\* A second callback with a state was rejected while the exchange of the
\* first was still pending
C25_Witness ==
    \E s \in States :
        /\ oauth.exchanging[s] = 1
        /\ oauth.redeemed[s] = 1
        /\ oauth.callbacks >= 2
        /\ oauth.last = [state |-> s, status |-> 400, age |-> oauth.last.age]

\* ------------------------------------------------------------------ C26
\* C26: a callback presenting a state issued more than ten minutes earlier
\* is rejected (400) and adds no account.
C26_OldStateRejected ==
    oauth.last.age > STATE_MAX_AGE_MS => oauth.last.status = 400

\* ------------------------------------------------------------------ C27
\* The step serves a request, recorded in web'.last
C27_Served == web'.served # web.served

\* The request is one the claim calls protected: an /api/ route other than
\* fetching the OAuth URL and reading the configuration, or /health or
\* /account-limits
C27_Protected(request) ==
    \/ /\ request.path[1] = "api"
       /\ ~(request.method = "GET" /\ request.path = <<"api", "auth", "url">>)
       /\ ~(request.method = "GET" /\ request.path = <<"api", "config">>)
    \/ request.path \in {<<"health">>, <<"account-limits">>}

\* C27: with a WebUI password configured, every protected request that does
\* not present the correct password is answered 401 and changes no server
\* state; in particular no configuration update is applied.
C27_PasswordRequired ==
    [][(/\ C27_Served
        /\ web.password # ""
        /\ C27_Protected(web'.last)
        /\ web'.last.provided # web.password)
       => /\ web'.last.status = 401
          /\ web'.saved = web.saved
          /\ web'.modelMapping = web.modelMapping]_vars

\* ------------------------------------------------------------------ C28
\* C28: POST /api/models/config changes the in-memory model mapping only if
\* the configuration was saved; when saving fails the request gets an error
\* and the in-memory mapping is what it was before the request.
C28_MappingChangesOnlyWhenSaved ==
    [][(/\ C27_Served
        /\ web'.last.method = "POST"
        /\ web'.last.path = <<"api", "models", "config">>
        /\ web'.last.status # 200)
       => web'.modelMapping = web.modelMapping]_vars

\* ------------------------------------------------------------------ C29
\* C29: when a toggle request for an account of the console's list fails
\* (error response or exception), the enabled flag shown in the console is
\* restored to the value it had before that toggle was issued.
C29_FailedToggleRolledBack ==
    [][(ui'.settled = ui.settled + 1 /\ ui'.last.failed)
       => ui'.shown = ui'.last.prev]_vars

\* ------------------------------------------------------------------ C30
\* C30: between explicit resets the upstream project discovery is issued at
\* most once per account, even when several requests for the same account
\* interleave at the discovery await point.
C30_OneDiscoveryPerAccount ==
    \A e \in Emails : disc.issued[e] <= 1

\* ------------------------------------------------------------------ C33
\* Every rate limit of acc that applies to a request for model m (the
\* global one, and the one of m) has a reset time that has passed, and there
\* is at least one
C33_LimitsPassed(acc, m) ==
    /\ acc.isRateLimited => acc.rateLimitResetTime <= now
    /\ (m # NoModel /\ acc.modelRateLimits[m].isRateLimited)
            => acc.modelRateLimits[m].resetTime <= now
    /\ acc.isRateLimited \/ (m # NoModel /\ acc.modelRateLimits[m].isRateLimited)

\* C33: an account whose rate-limit reset time has already passed is returned
\* by getAvailableAccounts (if it is not invalid) even when clearExpired has
\* not run since, for a global limit exactly as for a per-model limit.
C33_PassedLimitIsAvailable ==
    \A i \in Pool : \A m \in ModelInputs :
        (~accounts[i].isInvalid /\ C33_LimitsPassed(accounts[i], m)) =>
            \E k \in 1..Len(getAvailableAccounts(accounts, m, now)) :
                getAvailableAccounts(accounts, m, now)[k] = accounts[i]

\* ------------------------------------------------------------------ C34
\* C34: getMinWaitTimeMs returns 0 if and only if the pool is non-empty and
\* at least one account is not globally rate-limited; in every other case,
\* including the empty pool and reset times that have all passed, it returns
\* a strictly positive number.
C34_ZeroWaitIffSomeAccountFree ==
    LET someFree == Len(accounts) > 0 /\ \E i \in Pool : ~accounts[i].isRateLimited
    IN  /\ someFree => getMinWaitTimeMs(accounts, now) = 0
        /\ ~someFree => getMinWaitTimeMs(accounts, now) > 0

\* Every account of a pool of two is globally rate-limited and every reset
\* time has passed
C34_Witness ==
    /\ Len(accounts) = 2
    /\ \A i \in Pool : /\ accounts[i].isRateLimited
                      /\ accounts[i].rateLimitResetTime <= now
    /\ getMinWaitTimeMs(accounts, now) = DEFAULT_COOLDOWN_MS

\* ------------------------------------------------------------------ C35
\* C35: for every pool and every model m (including the empty pool and no
\* model), if isAllRateLimited(accounts, m) is true then
\* getAvailableAccounts(accounts, m) is empty.
C35_AllLimitedThenNoneAvailable ==
    \A m \in ModelInputs :
        isAllRateLimited(accounts, m, now) =>
            getAvailableAccounts(accounts, m, now) = <<>>

\* A pool of two is exhausted for a model by one global limit and one limit
\* of that model
C35_Witness ==
    \E m \in Models :
        /\ Len(accounts) = 2
        /\ accounts[1].isRateLimited /\ ~accounts[1].modelRateLimits[m].isRateLimited
        /\ ~accounts[2].isRateLimited /\ accounts[2].modelRateLimits[m].isRateLimited
        /\ accounts[2].modelRateLimits[m].resetTime > now
        /\ isAllRateLimited(accounts, m, now)
        /\ ~isAllRateLimited(accounts, NoModel, now)

\* ------------------------------------------------------------------ C36
\* Every flag of a pool that is set comes with a reset time
C36_FlagsHaveTimes(accs) ==
    \A i \in 1..Len(accs) :
        /\ accs[i].isRateLimited => accs[i].rateLimitResetTime # Null
        /\ \A m \in Models :
              accs[i].modelRateLimits[m].isRateLimited
                  => accs[i].modelRateLimits[m].resetTime # Null

\* Every flag set in before and not in after has a null reset time in after
C36_ClearedHaveNoTime(before, after) ==
    \A i \in 1..Len(before) :
        /\ (before[i].isRateLimited /\ ~after[i].isRateLimited)
              => after[i].rateLimitResetTime = Null
        /\ \A m \in Models :
              (before[i].modelRateLimits[m].isRateLimited
               /\ ~after[i].modelRateLimits[m].isRateLimited)
                  => after[i].modelRateLimits[m].resetTime = Null

\* C36: in every state reachable from a pool with no rate limits, a
\* rate-limited flag comes with a reset time, globally and per model, and an
\* entry cleared by clearExpired or by resetAll has a null reset time.
C36_FlagImpliesResetTime ==
    /\ C36_FlagsHaveTimes(accounts)
    /\ C36_ClearedHaveNoTime(accounts, clearExpiredLimits(accounts, now).accounts)
    /\ C36_ClearedHaveNoTime(accounts, resetAllRateLimits(accounts))

\* A global limit is in force next to a model entry that has been cleared,
\* and a model limit is due for the sweep
C36_Witness ==
    \E i \in Pool : \E m1, m2 \in Models :
        /\ accounts[i].isRateLimited
        /\ accounts[i].modelRateLimits[m1].present
        /\ ~accounts[i].modelRateLimits[m1].isRateLimited
        /\ accounts[i].modelRateLimits[m2].isRateLimited
        /\ accounts[i].modelRateLimits[m2].resetTime <= now

\* ------------------------------------------------------------------ C37
\* C37: markRateLimited and markInvalid called with an email that is not in
\* the pool return false and leave every account unchanged; called with an
\* email in the pool they return true.
C37_UnknownEmailIsNoOp ==
    \A email \in EmailInputs :
        LET known == \E i \in Pool : accounts[i].email = email
            invalid == markInvalid(accounts, email, "invalid_grant")
        IN  /\ invalid.ret = known
            /\ ~known => invalid.accounts = accounts
            /\ \A resetMs \in ResetMsInputs, modelId \in ModelInputs :
                  LET limited == markRateLimited(accounts, email, resetMs, Null,
                                                 modelId, now)
                  IN  /\ limited.ret = known
                      /\ ~known => limited.accounts = accounts

\* Calls were made on a pool of two and have left one account as it was
\* created, an email outside the pool being among the arguments
C37_Witness ==
    /\ Len(accounts) = 2
    /\ calls = MaxCalls
    /\ accounts[1] = NewAccount("a@x", "oauth", "")
    /\ accounts[2].isInvalid
    /\ ~markInvalid(accounts, UnknownEmail, "invalid_grant").ret

\* ------------------------------------------------------------------ C32
\* C32: if getTokenForAccount fails (network error on refresh, rejected
\* credential, or token extraction failure), the token cache is left exactly
\* as it was before the call: no entry is added, replaced or removed.
C32_FailedTokenCallKeepsCache ==
    \A i \in Pool : \A refresh \in RefreshOutcomes :
        LET r == getTokenForAccount(accounts, tokenCache, i, refresh, now)
        IN  r.result # "ok" =>
                \A e \in Emails : r.tokenCache[e] = tokenCache[e]

\* All three failures happen in one state: the OAuth account's cached token
\* has gone stale, so that its refresh fails on the network or is rejected,
\* and the database account has nothing cached and its extraction fails
C32_Witness ==
    /\ Len(accounts) = 2
    /\ accounts[1].source = "database" /\ accounts[2].source = "oauth"
    /\ ~tokenCache["a@x"].present
    /\ tokenCache["b@x"].present
    /\ now - tokenCache["b@x"].extractedAt >= TOKEN_REFRESH_INTERVAL_MS
    /\ getTokenForAccount(accounts, tokenCache, 1, "rejected", now).result = "EXTRACT_FAILED"
    /\ getTokenForAccount(accounts, tokenCache, 2, "network", now).result = "AUTH_NETWORK_ERROR"
    /\ getTokenForAccount(accounts, tokenCache, 2, "rejected", now).result = "AUTH_INVALID"

\* ------------------------------------------------------------------ C31
\* The endpoint answered the fetch with an OK response
C31_OkResponse(r) == r.fetch = "responds" /\ r.ok

\* The endpoints up to and including the first that answers OK, all of them
\* if none does
C31_UpToFirstOk(responses) ==
    LET oks == {k \in 1..Len(responses) : C31_OkResponse(responses[k])}
        last == IF oks = {} THEN Len(responses)
                ELSE CHOOSE k \in oks : \A j \in oks : k <= j
    IN  [k \in 1..last |-> k]

\* The body of the response carries a project
C31_YieldsProject(r) ==
    /\ C31_OkResponse(r) /\ r.json = "object"
    /\ r.cloudaicompanionProject.type \in {"string", "object"}
    /\ r.cloudaicompanionProject.id # ""

\* C31: discoverProject always terminates with a project id: it contacts each
\* configured endpoint at most once, in order, stops contacting endpoints at
\* the first OK response, and returns the default project id when every
\* endpoint fails or when neither discovery nor onboarding yields a project.
C31_DiscoveryContactsUpToFirstOk ==
    discovery.called =>
        /\ discovery.project # ""
        /\ discovery.contacted = C31_UpToFirstOk(discovery.responses)
        /\ (\A k \in 1..NumEndpoints : ~C31_OkResponse(discovery.responses[k]))
              => discovery.project = DEFAULT_PROJECT_ID
        /\ ( /\ \A k \in 1..NumEndpoints : ~C31_YieldsProject(discovery.responses[k])
             /\ discovery.onboarded = "" )
              => discovery.project = DEFAULT_PROJECT_ID

\* ------------------------------------------------------------------ C38
\* The EventSources of the viewer that are not closed
C38_OpenStreams == {k \in 1..Len(logs.sources) : logs.sources[k] # "closed"}

\* C38: a log viewer holds at most one open log stream at any time: every
\* start or restart closes the previous EventSource before opening a new one,
\* under any interleaving of stream error events and the 3-second reconnect
\* timers they schedule.
C38_AtMostOneLogStream ==
    /\ Cardinality(C38_OpenStreams) <= 1
    /\ \A k \in 1..Len(logs.sources) :
          k # Len(logs.sources) => logs.sources[k] = "closed"

\* Restarts have happened while a second reconnect timer was still pending,
\* and the stream of the latest restart is open
C38_Witness ==
    /\ Len(logs.sources) >= 3
    /\ logs.timers >= 1
    /\ logs.sources[Len(logs.sources)] = "open"
    /\ logs.lines >= 1
====
